---- MODULE Spec2Model ----
(***************************************************************************)
(* Model of the portfolio chatbot's client side: query_agent               *)
(* (deployment/agent_client.py), the Streamlit send handler                *)
(* (deployment/streamlit_app.py) and the deployment CLI                    *)
(* (deployment/remote.py, deploy_with_mcp.py, local.py).                   *)
(*                                                                         *)
(* Python values are encoded as tagged records so that values of different *)
(* Python types can sit in one collection:                                 *)
(*   None -> [ty |-> "none"],  str -> [ty |-> "str", s |-> ...],           *)
(*   int  -> [ty |-> "int", i |-> ...],                                    *)
(*   dict -> [ty |-> "dict", d |-> function from key strings to values],   *)
(*   list -> [ty |-> "list", l |-> sequence of values].                    *)
(***************************************************************************)
EXTENDS Integers, Sequences, FiniteSets, TLC

\* ------------------------------------------------------------------------
\* Python values and the operations the code applies to them
\* ------------------------------------------------------------------------
PNone == [ty |-> "none"]
PStr(s) == [ty |-> "str", s |-> s]
PInt(i) == [ty |-> "int", i |-> i]
\* A dict: its keys in the order they were inserted, and the value under each
PDict(keys, d) == [ty |-> "dict", keys |-> keys, d |-> d]
PList(l) == [ty |-> "list", l |-> l]
EmptyDict == PDict(<<>>, <<>>)

\* a == b on Python values: two dicts are equal when they hold the same
\* values under the same keys, whatever the order of insertion
RECURSIVE PyEq(_, _)
PyEq(a, b) ==
  IF a.ty # b.ty THEN FALSE
  ELSE CASE a.ty = "dict" ->
              /\ DOMAIN a.d = DOMAIN b.d
              /\ \A k \in DOMAIN a.d : PyEq(a.d[k], b.d[k])
         [] a.ty = "list" ->
              /\ Len(a.l) = Len(b.l)
              /\ \A i \in 1..Len(a.l) : PyEq(a.l[i], b.l[i])
         [] OTHER -> a = b

\* isinstance(v, dict)
IsDict(v) == v.ty = "dict"

\* bool(v): None, "", 0, {} and [] are falsy
Truthy(v) ==
  CASE v.ty = "none" -> FALSE
    [] v.ty = "str"  -> v.s # ""
    [] v.ty = "int"  -> v.i # 0
    [] v.ty = "dict" -> DOMAIN v.d # {}
    [] v.ty = "list" -> Len(v.l) > 0

\* a or b
PyOr(a, b) == IF Truthy(a) THEN a ELSE b

\* sub in s, for Python strings
RECURSIVE SubstringFrom(_, _, _)
SubstringFrom(sub, s, i) ==
  IF i + Len(sub) - 1 > Len(s) THEN FALSE
  ELSE IF SubSeq(s, i, i + Len(sub) - 1) = sub THEN TRUE
  ELSE SubstringFrom(sub, s, i + 1)
Substring(sub, s) == SubstringFrom(sub, s, 1)

\* type(v).__name__
TypeName(v) == IF v.ty = "none" THEN "NoneType" ELSE v.ty

\* An exception: the name of its type and str(e), as CPython 3.11 words it
Exc(type, msg) == [type |-> type, msg |-> msg]

\* str(e) of the TypeError that v['key'] raises on a value that is no
\* mapping
NotSubscriptable(v) ==
  CASE v.ty = "str" -> "string indices must be integers, not 'str'"
    [] v.ty = "list" -> "list indices must be integers or slices, not str"
    [] OTHER -> "'" \o TypeName(v) \o "' object is not subscriptable"

\* Outcome of an expression that may raise: ok with a value, or the
\* exception.
Ok(v) == [ok |-> TRUE, v |-> v, exc |-> Exc("", "")]
Raises(e) == [ok |-> FALSE, v |-> PNone, exc |-> e]

\* key in v  (a boolean outcome is carried as PInt(1) / PInt(0))
PyIn(key, v) ==
  CASE v.ty = "dict" -> Ok(PInt(IF key \in DOMAIN v.d THEN 1 ELSE 0))
    [] v.ty = "list" ->
         Ok(PInt(IF \E i \in 1..Len(v.l) : PyEq(v.l[i], PStr(key)) THEN 1 ELSE 0))
    [] v.ty = "str"  -> Ok(PInt(IF Substring(key, v.s) THEN 1 ELSE 0))
    [] OTHER -> Raises(Exc("TypeError", "argument of type '" \o TypeName(v) \o "' is not iterable"))

\* v[key] with a string key
PyGetItem(v, key) ==
  CASE v.ty = "dict" ->
         IF key \in DOMAIN v.d THEN Ok(v.d[key]) ELSE Raises(Exc("KeyError", "'" \o key \o "'"))
    [] OTHER -> Raises(Exc("TypeError", NotSubscriptable(v)))

\* v.get(key, default): only dicts have the method
PyGet(v, key, default) ==
  IF v.ty = "dict"
    THEN Ok(IF key \in DOMAIN v.d THEN v.d[key] ELSE default)
    ELSE Raises(Exc("AttributeError", "'" \o TypeName(v) \o "' object has no attribute 'get'"))

\* The keys of a dict in the order of insertion, as Python strings
KeySeq(v) == [i \in 1..Len(v.keys) |-> PStr(v.keys[i])]

\* iter(v): the sequence a for loop walks
PyIter(v) ==
  CASE v.ty = "list" -> Ok(v)
    [] v.ty = "dict" -> Ok(PList(KeySeq(v)))
    [] v.ty = "str"  -> Ok(PList([i \in 1..Len(v.s) |-> PStr(SubSeq(v.s, i, i))]))
    [] OTHER -> Raises(Exc("TypeError", "'" \o TypeName(v) \o "' object is not iterable"))

\* A slice that keeps the whole value
PyWhole(v, n) ==
  CASE v.ty \in {"str", "list"} -> Ok(v)
    [] OTHER -> Raises(Exc("TypeError", IF v.ty = "dict" THEN "unhashable type: 'slice'"
                                    ELSE "'" \o TypeName(v) \o "' object is not subscriptable"))

\* v[:n]
PySlice(v, n) ==
  CASE v.ty = "str"  -> Ok(PStr(IF Len(v.s) <= n THEN v.s ELSE SubSeq(v.s, 1, n)))
    [] v.ty = "list" -> Ok(PList(IF Len(v.l) <= n THEN v.l ELSE SubSeq(v.l, 1, n)))
    [] OTHER -> Raises(Exc("TypeError", IF v.ty = "dict" THEN "unhashable type: 'slice'"
                                    ELSE "'" \o TypeName(v) \o "' object is not subscriptable"))

\* s.split("/")[-1]
RECURSIVE LastSlash(_, _)
LastSlash(s, i) ==
  IF i = 0 THEN 0
  ELSE IF SubSeq(s, i, i) = "/" THEN i
  ELSE LastSlash(s, i - 1)
LastSegment(s) ==
  LET k == LastSlash(s, Len(s))
  IN IF k = Len(s) THEN "" ELSE SubSeq(s, k + 1, Len(s))

\* ------------------------------------------------------------------------
\* query_agent: the reduction of the collected events (agent_client.py 88-123)
\* ------------------------------------------------------------------------
\* The two accumulators of the loop, plus the exception that left it (if any).
Acc0 == [raised |-> FALSE, exc |-> Exc("", ""), response_text |-> PStr(""), citations |-> <<>>]
Raise(acc, e) == [acc EXCEPT !.raised = TRUE, !.exc = e]

\* ctx.get("text", "")[:200]
CitationTextLimit == 200

\* A citation whose source falls back to an empty string
MakeCitationBlankSource(ctx) ==
  LET t == PySlice(PyGet(ctx, "text", PStr("")).v, CitationTextLimit)
  IN IF ~t.ok THEN Raises(t.exc)
     ELSE Ok(PDict(<<"source_uri", "text", "distance">>, [source_uri |-> PyGet(ctx, "source_uri", PStr("")).v,
                    text |-> t.v,
                    distance |-> PyGet(ctx, "distance", PInt(0)).v]))

\* {"source_uri": ctx.get("source_uri", "RAG Corpus"),
\*  "text": ctx.get("text", "")[:200], "distance": ctx.get("distance", 0)}
MakeCitation(ctx) ==
  LET t == PySlice(PyGet(ctx, "text", PStr("")).v, CitationTextLimit)
  IN IF ~t.ok THEN Raises(t.exc)
     ELSE Ok(PDict(<<"source_uri", "text", "distance">>, [source_uri |-> PyGet(ctx, "source_uri", PStr("RAG Corpus")).v,
                    text |-> t.v,
                    distance |-> PyGet(ctx, "distance", PInt(0)).v]))

\* A citation list that drops an entry it already holds
AppendUnique(citations, c) ==
  IF \E i \in 1..Len(citations) : citations[i] = c THEN citations ELSE Append(citations, c)

\* citations.append(x)
Append_citation(citations, c) == Append(citations, c)

\* for ctx in contexts: if isinstance(ctx, dict): citations.append({...})
RECURSIVE ContextLoop(_, _, _)
ContextLoop(acc, l, i) ==
  IF acc.raised \/ i > Len(l) THEN acc
  ELSE IF ~IsDict(l[i]) THEN ContextLoop(acc, l, i + 1)
  ELSE LET c == MakeCitation(l[i])
       IN IF ~c.ok THEN Raise(acc, c.exc)
          ELSE ContextLoop([acc EXCEPT !.citations = Append_citation(@, c.v)], l, i + 1)

\* The body of `if "function_response" in part:` (lines 107-116)
FunctionResponse(acc, part) ==
  LET g == PyGetItem(part, "function_response") IN
  IF ~g.ok THEN Raise(acc, g.exc)
  ELSE LET fr == g.v
           hasResp == PyIn("response", fr)
       IN IF ~hasResp.ok THEN Raise(acc, hasResp.exc)
          ELSE IF hasResp.v.i = 0 THEN acc
          ELSE LET r == PyGetItem(fr, "response") IN
               IF ~r.ok THEN Raise(acc, r.exc)
               ELSE IF ~IsDict(r.v) THEN acc
               ELSE LET it == PyIter(PyGet(r.v, "contexts", PList(<<>>)).v)
                    IN IF ~it.ok THEN Raise(acc, it.exc)
                       ELSE ContextLoop(acc, it.v.l, 1)

\* for part in content["parts"]: if "function_response" in part: ... (105-116)
RECURSIVE CitationParts(_, _, _)
CitationParts(acc, l, i) ==
  IF acc.raised \/ i > Len(l) THEN acc
  ELSE LET has == PyIn("function_response", l[i])
       IN IF ~has.ok THEN Raise(acc, has.exc)
          ELSE IF has.v.i = 0 THEN CitationParts(acc, l, i + 1)
          ELSE CitationParts(FunctionResponse(acc, l[i]), l, i + 1)

\* A reducer that keeps the first text it meets
KeepFirstText(acc, text) ==
  IF acc.response_text = PStr("") THEN [acc EXCEPT !.response_text = text] ELSE acc

\* response_text = part["text"]  # Keep latest text
KeepText(acc, text) == [acc EXCEPT !.response_text = text]

\* for part in content["parts"]: if "text" in part: response_text = part["text"]
RECURSIVE TextParts(_, _, _)
TextParts(acc, l, i) ==
  IF acc.raised \/ i > Len(l) THEN acc
  ELSE LET has == PyIn("text", l[i])
       IN IF ~has.ok THEN Raise(acc, has.exc)
          ELSE IF has.v.i = 0 THEN TextParts(acc, l, i + 1)
          ELSE LET g == PyGetItem(l[i], "text")
               IN IF ~g.ok THEN Raise(acc, g.exc)
                  ELSE TextParts(KeepText(acc, g.v), l, i + 1)

\* A loop over the parts that does not look at the role
RoleLoopAnyRole(acc, content, role, isText) ==
  IF "parts" \notin DOMAIN content.d
    THEN acc
    ELSE LET it == PyIter(content.d["parts"])
         IN IF ~it.ok THEN Raise(acc, it.exc)
            ELSE IF isText THEN TextParts(acc, it.v.l, 1)
            ELSE CitationParts(acc, it.v.l, 1)

\* content.get("role") == role and "parts" in content, then the loop over
\* content["parts"]; content is known to have .get when this is evaluated.
RoleLoop(acc, content, role, isText) ==
  IF ~(PyEq(PyGet(content, "role", PNone).v, PStr(role)) /\ "parts" \in DOMAIN content.d)
    THEN acc
    ELSE LET it == PyIter(content.d["parts"])
         IN IF ~it.ok THEN Raise(acc, it.exc)
            ELSE IF isText THEN TextParts(acc, it.v.l, 1)
            ELSE CitationParts(acc, it.v.l, 1)

\* if isinstance(event, dict): if "content" in event: (lines 92-94)
HasContent(event) == IsDict(event) /\ "content" \in DOMAIN event.d

\* content = event["content"] and the two role branches (lines 95-116)
ReduceContent(acc, content) ==
  IF ~IsDict(content) THEN Raise(acc, Exc("AttributeError", "'" \o TypeName(content) \o "' object has no attribute 'get'"))
  ELSE LET a1 == RoleLoop(acc, content, "model", TRUE)
       IN IF a1.raised THEN a1 ELSE RoleLoop(a1, content, "user", FALSE)

\* A loop that indexes event["content"] without looking first
ReduceEventUnguarded(acc, event) ==
  IF acc.raised THEN acc
  ELSE IF ~IsDict(event) THEN Raise(acc, Exc("TypeError", NotSubscriptable(event)))
  ELSE IF "content" \notin DOMAIN event.d THEN Raise(acc, Exc("KeyError", "'content'"))
  ELSE ReduceContent(acc, event.d["content"])

\* One iteration of `for event in events:` (lines 92-116)
ReduceEvent(acc, event) ==
  IF acc.raised \/ ~HasContent(event) THEN acc
  ELSE ReduceContent(acc, event.d["content"])

RECURSIVE ReduceFrom(_, _, _)
ReduceFrom(acc, evs, i) ==
  IF i > Len(evs) THEN acc ELSE ReduceFrom(ReduceEvent(acc, evs[i]), evs, i + 1)

\* response_text or "No response text found"
NoResponseText == PStr("No response text found")
\* A return without the fallback
NoFallback(response_text) == response_text

\* response_text or "No response text found" (agent_client.py 119)
FinalResponse(response_text) == PyOr(response_text, NoResponseText)

\* Lines 88-123: the loop, then the returned dict; or the exception that
\* leaves query_agent when the loop raises.
ReduceResult(evs, sid) ==
  LET acc == ReduceFrom(Acc0, evs, 1)
  IN IF acc.raised THEN [raised |-> TRUE, exc |-> acc.exc, value |-> PNone]
     ELSE [raised |-> FALSE, exc |-> Exc("", ""),
           value |-> PDict(<<"response", "citations", "events", "session_id">>, [response |-> FinalResponse(acc.response_text),
                            citations |-> PList(acc.citations),
                            events |-> PList(evs),
                            session_id |-> sid])]

\* ------------------------------------------------------------------------
\* send_prompt: the chat UI's own passes over result["events"]
\* (streamlit_app.py 232-311)
\* ------------------------------------------------------------------------
\* tool_icons.get(tool_name, ...): the key must be hashable
Hashable(v) == v.ty \notin {"dict", "list"}

\* Lines 243-248: if "function_call" in part: ... tool_count += 1
UiFunctionCall(t, part) ==
  LET has == PyIn("function_call", part) IN
  IF ~has.ok THEN Raise(t, has.exc)
  ELSE IF has.v.i = 0 THEN t
  ELSE LET g == PyGetItem(part, "function_call") IN
       IF ~g.ok THEN Raise(t, g.exc)
       ELSE LET name == PyGet(g.v, "name", PStr("unknown")) IN
            IF ~name.ok THEN Raise(t, name.exc)
            ELSE IF ~Hashable(name.v)
              THEN Raise(t, Exc("TypeError", "unhashable type: '" \o TypeName(name.v) \o "'"))
            ELSE [t EXCEPT !.tool_count = @ + 1]

\* Lines 251-265: if "function_response" in part: ... len(contexts)
UiFunctionResponseSummary(t, part) ==
  LET has == PyIn("function_response", part) IN
  IF ~has.ok THEN Raise(t, has.exc)
  ELSE IF has.v.i = 0 THEN t
  ELSE LET g == PyGetItem(part, "function_response") IN
       IF ~g.ok THEN Raise(t, g.exc)
       ELSE LET name == PyGet(g.v, "name", PStr("unknown")) IN
            IF ~name.ok THEN Raise(t, name.exc)
            ELSE IF ~Hashable(name.v)
              THEN Raise(t, Exc("TypeError", "unhashable type: '" \o TypeName(name.v) \o "'"))
            ELSE LET response_data == PyGet(g.v, "response", EmptyDict).v IN
                 IF ~IsDict(response_data) THEN t
                 ELSE LET contexts == PyGet(response_data, "contexts", PList(<<>>)).v IN
                      \* len(contexts) of a truthy value without a length
                      IF Truthy(contexts) /\ contexts.ty = "int"
                        THEN Raise(t, Exc("TypeError", "object of type 'int' has no len()")) ELSE t

RECURSIVE UiToolParts(_, _, _)
UiToolParts(t, l, i) ==
  IF t.raised \/ i > Len(l) THEN t
  ELSE LET t1 == UiFunctionCall(t, l[i])
       IN IF t1.raised THEN t1
          ELSE UiToolParts(UiFunctionResponseSummary(t1, l[i]), l, i + 1)

\* One iteration of the first loop (lines 237-265); no role is looked at
UiToolEvent(t, event) ==
  IF t.raised \/ ~HasContent(event) THEN t
  ELSE LET content == event.d["content"]
           has == PyIn("parts", content)
       IN IF ~has.ok THEN Raise(t, has.exc)
          ELSE IF has.v.i = 0 THEN t
          ELSE LET g == PyGetItem(content, "parts") IN
               IF ~g.ok THEN Raise(t, g.exc)
               ELSE LET it == PyIter(g.v) IN
                    IF ~it.ok THEN Raise(t, it.exc)
                    ELSE UiToolParts(t, it.v.l, 1)

RECURSIVE UiToolLoop(_, _, _)
UiToolLoop(t, evs, i) ==
  IF i > Len(evs) THEN t ELSE UiToolLoop(UiToolEvent(t, evs[i]), evs, i + 1)

Tool0 == [raised |-> FALSE, exc |-> Exc("", ""), tool_count |-> 0]

\* {"text": ctx.get("text", "")[:200],
\*  "source_uri": ctx.get("source_uri", "RAG Corpus"), "distance": ctx.get("distance", "")}
UiMakeCitation(ctx) ==
  LET t == PySlice(PyGet(ctx, "text", PStr("")).v, CitationTextLimit)
  IN IF ~t.ok THEN Raises(t.exc)
     ELSE Ok(PDict(<<"text", "source_uri", "distance">>, [text |-> t.v,
                    source_uri |-> PyGet(ctx, "source_uri", PStr("RAG Corpus")).v,
                    distance |-> PyGet(ctx, "distance", PStr("")).v]))

\* for ctx in contexts: if isinstance(ctx, dict) and "text" in ctx: (300-308)
RECURSIVE UiContextLoop(_, _, _)
UiContextLoop(acc, l, i) ==
  IF acc.raised \/ i > Len(l) THEN acc
  ELSE IF ~(IsDict(l[i]) /\ "text" \in DOMAIN l[i].d) THEN UiContextLoop(acc, l, i + 1)
  ELSE LET c == UiMakeCitation(l[i])
       IN IF ~c.ok THEN Raise(acc, c.exc)
          ELSE UiContextLoop([acc EXCEPT !.citations = Append(@, c.v)], l, i + 1)

\* Lines 297-308
UiFunctionResponse(acc, part) ==
  LET g == PyGetItem(part, "function_response") IN
  IF ~g.ok THEN Raise(acc, g.exc)
  ELSE LET fr == g.v
           hasResp == PyIn("response", fr)
       IN IF ~hasResp.ok THEN Raise(acc, hasResp.exc)
          ELSE IF hasResp.v.i = 0 THEN acc
          ELSE LET r == PyGetItem(fr, "response") IN
               IF ~r.ok THEN Raise(acc, r.exc)
               ELSE IF ~IsDict(r.v) THEN acc
               ELSE LET it == PyIter(PyGet(r.v, "contexts", PList(<<>>)).v)
                    IN IF ~it.ok THEN Raise(acc, it.exc)
                       ELSE UiContextLoop(acc, it.v.l, 1)

\* Lines 295-308
RECURSIVE UiCitationParts(_, _, _)
UiCitationParts(acc, l, i) ==
  IF acc.raised \/ i > Len(l) THEN acc
  ELSE LET has == PyIn("function_response", l[i])
       IN IF ~has.ok THEN Raise(acc, has.exc)
          ELSE IF has.v.i = 0 THEN UiCitationParts(acc, l, i + 1)
          ELSE UiCitationParts(UiFunctionResponse(acc, l[i]), l, i + 1)

\* Lines 290-292
RECURSIVE UiTextParts(_, _, _)
UiTextParts(acc, l, i) ==
  IF acc.raised \/ i > Len(l) THEN acc
  ELSE LET has == PyIn("text", l[i])
       IN IF ~has.ok THEN Raise(acc, has.exc)
          ELSE IF has.v.i = 0 THEN UiTextParts(acc, l, i + 1)
          ELSE LET g == PyGetItem(l[i], "text")
               IN IF ~g.ok THEN Raise(acc, g.exc)
                  ELSE UiTextParts([acc EXCEPT !.response_text = g.v], l, i + 1)

\* Lines 289 and 294: content.get("role") == role and "parts" in content
UiRoleLoop(acc, content, role, isText) ==
  IF ~(PyEq(PyGet(content, "role", PNone).v, PStr(role)) /\ "parts" \in DOMAIN content.d)
    THEN acc
    ELSE LET it == PyIter(content.d["parts"])
         IN IF ~it.ok THEN Raise(acc, it.exc)
            ELSE IF isText THEN UiTextParts(acc, it.v.l, 1)
            ELSE UiCitationParts(acc, it.v.l, 1)

\* One iteration of the second loop (lines 286-308)
UiReduceEvent(acc, event) ==
  IF acc.raised \/ ~HasContent(event) THEN acc
  ELSE LET content == event.d["content"] IN
       IF ~IsDict(content) THEN Raise(acc, Exc("AttributeError", "'" \o TypeName(content) \o "' object has no attribute 'get'"))
       ELSE LET a1 == UiRoleLoop(acc, content, "model", TRUE)
            IN IF a1.raised THEN a1 ELSE UiRoleLoop(a1, content, "user", FALSE)

RECURSIVE UiReduceFrom(_, _, _)
UiReduceFrom(acc, evs, i) ==
  IF i > Len(evs) THEN acc ELSE UiReduceFrom(UiReduceEvent(acc, evs[i]), evs, i + 1)

\* if not response_text: response_text = result.get("response", "No response received")
UiFallback(response_text, result) ==
  IF Truthy(response_text) THEN response_text
  ELSE PyGet(result, "response", PStr("No response received")).v

\* Lines 231-332 on a returned result: the session id kept, and either the
\* exception that leaves the try block or the assistant message to persist.
UiTurn(result) ==
  LET sid == PyGet(result, "session_id", PNone).v
      evs == PyGet(result, "events", PList(<<>>)).v.l
      tools == UiToolLoop(Tool0, evs, 1)
      acc == UiReduceFrom(Acc0, evs, 1)
  IN IF tools.raised THEN [raised |-> TRUE, exc |-> tools.exc, session_id |-> sid,
                           message |-> PNone]
     ELSE IF acc.raised THEN [raised |-> TRUE, exc |-> acc.exc, session_id |-> sid,
                              message |-> PNone]
     ELSE [raised |-> FALSE, exc |-> Exc("", ""), session_id |-> sid,
           message |-> PDict(<<"role", "content", "citations">>, [role |-> PStr("assistant"),
                              content |-> UiFallback(acc.response_text, result),
                              citations |-> PList(acc.citations)])]

\* ------------------------------------------------------------------------
\* The agent's GitHub tools: get_file_contents (multi_tool/agent.py 106-166)
\* and its inline copy in the deployed agent (deployment/remote.py 94-129)
\* ------------------------------------------------------------------------
\* Outcome of a library call: done with a value, or failed with the
\* exception's type name and str(e)
Done(v) == [ok |-> TRUE, v |-> v, type |-> "", msg |-> ""]
Failed(type, msg) == [ok |-> FALSE, v |-> PNone, type |-> type, msg |-> msg]

\* The place of character c in string s, from position i on; 0 when absent
RECURSIVE IndexIn(_, _, _)
IndexIn(c, s, i) ==
  IF i > Len(s) THEN 0
  ELSE IF SubSeq(s, i, i) = c THEN i
  ELSE IndexIn(c, s, i + 1)

\* The base64 alphabet; the value of a character is its place less one
Base64Value(c) ==
  IndexIn(c, "ABCDEFGHIJKLMNOPQRSTUVWXYZabcdefghijklmnopqrstuvwxyz0123456789+/", 1) - 1

\* binascii.a2b_base64 as base64.b64decode calls it (not strict): characters
\* outside the alphabet are passed over, a run of "=" that completes a group
\* of four ends the input, and data that stops inside a group is an error.
\* quad_pos is the place in the current group, leftchar the bits carried
\* over, pads the "=" seen in a row, out the bytes decoded so far.
RECURSIVE a2b_base64(_, _, _, _, _, _)
a2b_base64(s, i, quad_pos, leftchar, pads, out) ==
  IF i > Len(s)
    THEN IF quad_pos = 0 THEN Done(out)
         ELSE IF quad_pos = 1
           THEN Failed("Error", "Invalid base64-encoded string: number of data characters ("
                         \o ToString(((Len(out) \div 3) * 4) + 1)
                         \o ") cannot be 1 more than a multiple of 4")
         ELSE Failed("Error", "Incorrect padding")
  ELSE LET c == SubSeq(s, i, i)
           v == Base64Value(c)
       IN IF c = "="
            THEN IF quad_pos >= 2 /\ quad_pos + pads + 1 >= 4 THEN Done(out)
                 ELSE a2b_base64(s, i + 1, quad_pos, leftchar,
                                 IF quad_pos >= 2 THEN pads + 1 ELSE pads, out)
          ELSE IF v < 0 THEN a2b_base64(s, i + 1, quad_pos, leftchar, pads, out)
          ELSE CASE quad_pos = 0 -> a2b_base64(s, i + 1, 1, v, 0, out)
                 [] quad_pos = 1 ->
                      a2b_base64(s, i + 1, 2, v % 16, 0, Append(out, (leftchar * 4) + (v \div 16)))
                 [] quad_pos = 2 ->
                      a2b_base64(s, i + 1, 3, v % 4, 0, Append(out, (leftchar * 16) + (v \div 4)))
                 [] quad_pos = 3 ->
                      a2b_base64(s, i + 1, 0, 0, 0, Append(out, (leftchar * 64) + v))

\* base64.b64decode(s) for a str of ASCII characters
b64decode(s) == a2b_base64(s, 1, 0, 0, 0, <<>>)

\* The characters of the bytes 32..95 and 97..126, in order; byte 10 is the
\* line feed (a string of the model cannot hold the grave accent, byte 96)
AsciiLow == " !\"#$%&'()*+,-./0123456789:;<=>?@ABCDEFGHIJKLMNOPQRSTUVWXYZ[\\]^_"
AsciiHigh == "abcdefghijklmnopqrstuvwxyz{|}~"
Chr(b) ==
  CASE b = 10 -> "\n"
    [] b >= 32 /\ b <= 95 -> SubSeq(AsciiLow, b - 31, b - 31)
    [] b >= 97 /\ b <= 126 -> SubSeq(AsciiHigh, b - 96, b - 96)
HexDigit(n) == SubSeq("0123456789abcdef", n + 1, n + 1)
Hex2(b) == HexDigit(b \div 16) \o HexDigit(b % 16)

\* A byte that starts no UTF-8 sequence: a continuation byte, or a lead byte
\* outside C2..F4
InvalidStart(b) == (b >= 128 /\ b < 194) \/ b > 244

\* bytes.decode("utf-8") for bytes that are line feeds, printable ASCII, or
\* bytes that start no sequence (the files the model lets the API serve hold
\* no other byte)
RECURSIVE decode_utf8(_, _, _)
decode_utf8(bytes, i, text) ==
  IF i > Len(bytes) THEN Done(text)
  ELSE IF InvalidStart(bytes[i])
    THEN Failed("UnicodeDecodeError",
                "'utf-8' codec can't decode byte 0x" \o Hex2(bytes[i]) \o " in position "
                  \o ToString(i - 1) \o ": invalid start byte")
  ELSE decode_utf8(bytes, i + 1, text \o Chr(bytes[i]))

\* base64.b64decode(data["content"]).decode("utf-8")
DecodeContent(content) ==
  IF content.ty # "str"
    THEN Failed("TypeError", "argument should be a bytes-like object or ASCII string, not '"
                  \o (IF content.ty = "none" THEN "NoneType" ELSE content.ty) \o "'")
  ELSE LET b == b64decode(content.s)
       IN IF ~b.ok THEN b ELSE decode_utf8(b.v, 1, "")

\* str(v) as an f-string renders it, for None, a str or an int
PyStr(v) ==
  CASE v.ty = "str" -> v.s
    [] v.ty = "int" -> ToString(v.i)
    [] v.ty = "none" -> "None"

\* f"- {item['name']} ({item['type']})" for each item, joined by "\n"
RECURSIVE FileList(_, _, _)
FileList(items, i, text) ==
  IF i > Len(items) THEN Done(text)
  ELSE IF ~IsDict(items[i]) THEN Failed("TypeError", NotSubscriptable(items[i]))
  ELSE IF "name" \notin DOMAIN items[i].d THEN Failed("KeyError", "'name'")
  ELSE IF "type" \notin DOMAIN items[i].d THEN Failed("KeyError", "'type'")
  ELSE FileList(items, i + 1,
                text \o (IF i > 1 THEN "\n" ELSE "")
                     \o "- " \o PyStr(items[i].d["name"]) \o " (" \o PyStr(items[i].d["type"]) \o ")")

\* json.dumps of a str: the quotation mark, the backslash and the line feed
\* are escaped (the strings of the model hold no other character to escape);
\* the text up to the next such character is copied as it is
RECURSIVE JsonEscape(_, _, _)
JsonEscape(text, i, out) ==
  LET special == { j \in i..Len(text) : SubSeq(text, j, j) \in {"\"", "\\", "\n"} }
  IN IF special = {} THEN out \o SubSeq(text, i, Len(text))
     ELSE LET j == CHOOSE m \in special : \A n \in special : m <= n
              c == SubSeq(text, j, j)
          IN JsonEscape(text, j + 1,
                        out \o SubSeq(text, i, j - 1)
                            \o (CASE c = "\"" -> "\\\""
                                  [] c = "\\" -> "\\\\"
                                  [] c = "\n" -> "\\n"))
JsonString(text) == "\"" \o JsonEscape(text, 1, "") \o "\""

\* json.dumps of None, a str, or an int
JsonScalar(v) ==
  CASE v.ty = "str" -> JsonString(v.s)
    [] v.ty = "int" -> ToString(v.i)
    [] v.ty = "none" -> "null"

\* json.dumps(data, indent=2) for a mapping of scalars: one line per key,
\* in the order of insertion
RECURSIVE JsonMembers(_, _, _, _)
JsonMembers(d, keys, i, text) ==
  IF i > Len(keys) THEN text
  ELSE JsonMembers(d, keys, i + 1,
                   text \o (IF i > 1 THEN ",\n" ELSE "")
                        \o "  " \o JsonString(keys[i].s) \o ": " \o JsonScalar(d[keys[i].s]))
JsonDump(data) ==
  IF DOMAIN data.d = {} THEN "{}"
  ELSE "{\n" \o JsonMembers(data.d, KeySeq(data), 1, "") \o "\n}"

\* except httpx.TimeoutException: the class of the exception is
\* TimeoutException or one of its subclasses in httpx
TimeoutException(type) ==
  type \in {"TimeoutException", "ConnectTimeout", "ReadTimeout", "WriteTimeout", "PoolTimeout"}

\* path or 'root'
PathOrRoot(path) == IF path = "" THEN "root" ELSE path

\* What httpx.get does: it returns a response (status_code, text, and what
\* response.json() gives), or it raises
Response(status_code, text, json) ==
  [raised |-> FALSE, type |-> "", msg |-> "", status_code |-> status_code, text |-> text,
   json |-> json]
RequestFails(type, msg) ==
  [raised |-> TRUE, type |-> type, msg |-> msg, status_code |-> 0, text |-> "",
   json |-> Failed(type, msg)]

\* An exception that leaves a tool and reaches the agent runtime
Propagates(type, msg) == [ty |-> "exception", type |-> type, msg |-> msg]

\* os.getenv('GITHUB_USERNAME', 'mohitagr18'), read once when the module is
\* loaded (agent.py 17) or the agent is created (remote.py 37); env is what
\* os.environ holds under GITHUB_USERNAME then, None when it is not set. A
\* variable set to the empty string is returned as it is.
GITHUB_USERNAME(env) == IF env = PNone THEN "mohitagr18" ELSE env.s

\* json.dumps({"error": f"HTTP {response.status_code}", "message": response.text[:200]})
\* and json.dumps({"error": str(e)})
HttpErrorJson(r) ==
  "{\"error\": " \o JsonString("HTTP " \o ToString(r.status_code))
    \o ", \"message\": " \o JsonString(PySlice(PStr(r.text), 200).v.s) \o "}"
ErrorJson(msg) == "{\"error\": " \o JsonString(msg) \o "}"

\* The body list_repositories and get_repository_info share after the URL
\* (agent.py 87-103 and 179-196, remote.py 79-92 and 133-147)
GitHubJson(r) ==
  IF r.raised THEN PStr(ErrorJson(r.msg))
  ELSE IF r.status_code # 200 THEN PStr(HttpErrorJson(r))
  ELSE PStr(r.text)

\* list_repositories (agent.py 74-103, remote.py 73-92); r is what httpx.get does
list_repositories(username, r) == GitHubJson(r)
\* The URL it asks for: `if not username: username = GITHUB_USERNAME`
ReposUrl(username, env) ==
  "https://api.github.com/users/"
    \o (IF ~Truthy(username) THEN GITHUB_USERNAME(env) ELSE username.s) \o "/repos"

\* get_repository_info (agent.py 169-196, remote.py 131-147)
get_repository_info(owner, repo, r) == GitHubJson(r)

\* A loop that hands the retrieved context's attributes on as they are
RECURSIVE RagContextsWithSource(_, _, _)
RagContextsWithSource(retrieved, i, contexts) ==
  IF i > Len(retrieved) THEN Done(PList(contexts))
  ELSE IF "text" \notin DOMAIN retrieved[i].d
    THEN Failed("AttributeError", "'Context' object has no attribute 'text'")
  ELSE RagContextsWithSource(retrieved, i + 1, Append(contexts, retrieved[i]))

\* What rag.retrieval_query gives: Done(list of retrieved contexts) or
\* Failed(type, msg). A retrieved context is the mapping of its attributes.
\* The loop over response.contexts.contexts (agent.py 50-54, remote.py 56-60):
\* each entry keeps text and distance only; a context without a text attribute
\* raises AttributeError
RECURSIVE RagContexts(_, _, _)
RagContexts(retrieved, i, contexts) ==
  IF i > Len(retrieved) THEN Done(PList(contexts))
  ELSE IF "text" \notin DOMAIN retrieved[i].d
    THEN Failed("AttributeError", "'Context' object has no attribute 'text'")
  ELSE RagContexts(retrieved, i + 1,
         Append(contexts,
                PDict(<<"text", "distance">>, [text |-> retrieved[i].d["text"],
                       distance |-> IF "distance" \in DOMAIN retrieved[i].d
                                      THEN retrieved[i].d["distance"] ELSE PNone])))

\* traceback.format_exc(): the heading, the frame lines, and the line of the
\* exception, which is its class as a traceback names it, followed by a colon
\* and str(e) unless str(e) is empty. frames is the text of the frame lines:
\* they name the files of the installation and the lines that were running
Traceback(frames, type, msg) ==
  "Traceback (most recent call last):\n" \o frames
    \o type \o (IF msg = "" THEN "" ELSE ": " \o msg) \o "\n"

\* The except branch of rag_retrieval
RagError(e, frames) ==
  PDict(<<"status", "error_message", "details">>, [status |-> PStr("error"),
         error_message |-> PStr("RAG retrieval failed: " \o e.msg),
         details |-> PStr(Traceback(frames, e.type, e.msg))])

\* rag_retrieval (agent.py 24-66, remote.py 41-71); rag_corpus is
\* os.getenv("RAG_CORPUS"), r is what rag.retrieval_query does, frames the
\* frame lines a traceback taken in the except branch holds: frames.call
\* when retrieval_query raised, frames.loop when the loop over the contexts
\* did
rag_retrieval(rag_corpus, query, r, frames) ==
  IF ~Truthy(rag_corpus)
    THEN PDict(<<"status", "error_message">>, [status |-> PStr("error"),
                error_message |-> PStr("RAG corpus not configured")])
  ELSE IF ~r.ok THEN RagError(r, frames.call)
  ELSE LET loop == RagContexts(r.v.l, 1, <<>>)
       IN IF ~loop.ok THEN RagError(loop, frames.loop)
          ELSE PDict(<<"status", "contexts", "query">>, [status |-> PStr("success"), contexts |-> loop.v,
                      query |-> PStr(query)])

\* What feedparser.parse gives: bozo, bozo_exception (as text) and entries,
\* each entry a mapping that may hold title, published, link and tags (a list
\* of mappings with a term)
Feed(bozo, bozo_exception, entries) ==
  [bozo |-> bozo, bozo_exception |-> bozo_exception, entries |-> entries]

\* ', '.join(tags[:5]) with tags = [tag.term for tag in entry.get('tags', [])]
RECURSIVE JoinTags(_, _, _)
JoinTags(tags, i, text) ==
  IF i > Len(tags) \/ i > 5 THEN text
  ELSE JoinTags(tags, i + 1,
                text \o (IF i > 1 THEN ", " ELSE "") \o tags[i].d["term"].s)

\* The loop `for idx, entry in enumerate(feed.entries, 1)` (remote.py 170-187)
RECURSIVE ArticleLines(_, _, _)
ArticleLines(entries, idx, output) ==
  IF idx > Len(entries) THEN output
  ELSE LET entry == entries[idx]
           title == PyGet(entry, "title", PStr("No title")).v
           published == PyGet(entry, "published", PStr("N/A")).v
           link == PyGet(entry, "link", PStr("No link available")).v
           tags == PyGet(entry, "tags", PList(<<>>)).v
       IN ArticleLines(entries, idx + 1,
            output \o "**" \o ToString(idx) \o ". " \o PyStr(title) \o "**\n\n"
                   \o "Published: " \o PyStr(published) \o "\n\n"
                   \o "Link: " \o PyStr(link) \o "\n\n"
                   \o (IF Truthy(tags)
                         THEN "   Tags: " \o JoinTags(tags.l, 1, "") \o "\n"
                         ELSE "")
                   \o "\n")

\* A list_medium_articles without its three except clauses
list_medium_articles_uncaught(env, r, feed) ==
  IF r.raised THEN Propagates(r.type, r.msg)
  ELSE IF r.status_code \notin 200..299
    THEN Propagates("HTTPStatusError", ToString(r.status_code))
  ELSE IF feed.bozo THEN PStr("Error parsing RSS feed: " \o feed.bozo_exception)
  ELSE IF feed.entries = <<>>
    THEN PStr("No articles found for @" \o GITHUB_USERNAME(env) \o " on Medium.")
  ELSE PStr(ArticleLines(feed.entries, 1,
              "Found " \o ToString(Len(feed.entries))
                \o " Medium articles by Mohit Aggarwal:\n\n"))

\* list_medium_articles (remote.py 151-198); r is what httpx.get does (its json
\* is not read), feed is what feedparser.parse makes of the body, env is what
\* os.environ held under GITHUB_USERNAME when the agent was created.
\* raise_for_status raises HTTPStatusError unless the status is 2xx.
list_medium_articles(env, r, feed) ==
  IF r.raised
    THEN IF TimeoutException(r.type)
           THEN PStr("Error: Request to Medium RSS feed timed out after 30 seconds. Please try again.")
           ELSE PStr("Error fetching Medium articles: " \o r.msg)
  ELSE IF r.status_code \notin 200..299
    THEN PStr("Error: Medium RSS feed returned status " \o ToString(r.status_code))
  ELSE IF feed.bozo THEN PStr("Error parsing RSS feed: " \o feed.bozo_exception)
  ELSE IF feed.entries = <<>>
    THEN PStr("No articles found for @" \o GITHUB_USERNAME(env) \o " on Medium.")
  ELSE PStr(ArticleLines(feed.entries, 1,
              "Found " \o ToString(Len(feed.entries))
                \o " Medium articles by Mohit Aggarwal:\n\n"))

\* The part both copies share, from `if isinstance(data, list):` to the last
\* return of the try block (agent.py 140-161, remote.py 110-126); the copies
\* differ in the prefix of the decode error only
FileOrDirectory(path, data, decodeError) ==
  IF data.ty = "list"
    THEN LET file_list == FileList(data.l, 1, "")
         IN IF ~file_list.ok THEN file_list
            ELSE Done("Directory contents of " \o PathOrRoot(path) \o ":\n" \o file_list.v)
  ELSE LET has == PyIn("content", data) IN
       IF ~has.ok
         THEN Failed("TypeError", "argument of type '" \o TypeName(data) \o "' is not iterable")
       ELSE IF has.v.i = 1
         THEN IF ~IsDict(data)
                THEN Failed("AttributeError", "'" \o TypeName(data) \o "' object has no attribute 'get'")
              ELSE IF PyEq(PyGet(data, "size", PInt(0)).v, PInt(0))
                THEN Done("File exists but is empty: " \o path)
              ELSE LET content == DecodeContent(data.d["content"])
                   IN IF content.ok THEN content
                      ELSE Done(decodeError \o content.msg)
       ELSE IF IsDict(data) THEN Done(JsonDump(data))
       ELSE Done(JsonScalar(data))

\* An inline copy that looks at the content before it looks at the status
get_file_contents_content_first(owner, repo, path, r) ==
  IF r.raised
    THEN IF TimeoutException(r.type)
           THEN PStr("Timeout accessing GitHub API for " \o owner \o "/" \o repo \o "/" \o path)
           ELSE PStr("Error: " \o r.msg)
  ELSE IF r.json.ok /\ r.json.v.ty \in {"list", "dict"}
    THEN LET out == FileOrDirectory(path, r.json.v, "Error decoding file content: ")
         IN IF out.ok THEN PStr(out.v) ELSE PStr("Error: " \o out.msg)
  ELSE IF r.status_code = 404
    THEN PStr("File not found: " \o path \o " in " \o owner \o "/" \o repo
              \o ". The file may not exist or the repository may be private.")
  ELSE PStr("Error accessing file: HTTP " \o ToString(r.status_code) \o ". "
            \o PySlice(PStr(r.text), 200).v.s)

\* get_file_contents (multi_tool/agent.py 106-166); r is what httpx.get does
get_file_contents(owner, repo, path, r) ==
  IF r.raised
    THEN IF TimeoutException(r.type)
           THEN PStr("Timeout accessing GitHub API for " \o owner \o "/" \o repo \o "/" \o path)
           ELSE PStr("Error: " \o r.msg)
  ELSE IF r.status_code = 404
    THEN PStr("File not found: " \o path \o " in " \o owner \o "/" \o repo
              \o ". The file may not exist or the repository may be private.")
  ELSE IF r.status_code # 200
    THEN PStr("Error accessing file: HTTP " \o ToString(r.status_code) \o ". "
              \o PySlice(PStr(r.text), 200).v.s)
  ELSE IF ~r.json.ok
    THEN IF r.json.type = "JSONDecodeError"
           THEN PStr("Error: GitHub API returned invalid JSON. Response: "
                     \o PySlice(PStr(r.text), 500).v.s)
           ELSE PStr("Error: " \o r.json.msg)
  ELSE LET out == FileOrDirectory(path, r.json.v, "Error decoding file content: ")
       IN IF out.ok THEN PStr(out.v) ELSE PStr("Error: " \o out.msg)

\* get_file_contents inside create_agent (deployment/remote.py 94-129)
inline_get_file_contents(owner, repo, path, r) ==
  IF r.raised THEN PStr("Error: " \o r.msg)
  ELSE IF r.status_code = 404
    THEN PStr("File not found: " \o path \o " in " \o owner \o "/" \o repo)
  ELSE IF r.status_code # 200
    THEN PStr("Error: HTTP " \o ToString(r.status_code))
  ELSE IF ~r.json.ok THEN PStr("Error: " \o r.json.msg)
  ELSE LET out == FileOrDirectory(path, r.json.v, "Error decoding file: ")
       IN IF out.ok THEN PStr(out.v) ELSE PStr("Error: " \o out.msg)

\* ------------------------------------------------------------------------
\* What the remote service can send: the events stream_query yields, the
\* dict create_session returns, the message of an exception it raises
\* ------------------------------------------------------------------------
Part(key, v) == PDict(<<key>>, [k \in {key} |-> v])
Event(role, parts) == PDict(<<"content">>, [content |-> PDict(<<"role", "parts">>, [role |-> PStr(role), parts |-> parts])])
TextPart(t) == Part("text", PStr(t))
ToolResult(response) ==
  Part("function_response", PDict(<<"name", "response">>, [name |-> PStr("rag_retrieval"), response |-> response]))
Contexts(l) == PDict(<<"contexts">>, [contexts |-> PList(l)])

\* A text longer than the 200 characters a citation keeps
Text50 == "0123456789abcdefghij0123456789ABCDEFGHIJ0123456789"
LongText == Text50 \o Text50 \o Text50 \o Text50 \o "tail"

CtxFull == PDict(<<"text", "source_uri", "distance">>, [text |-> PStr("doc one"), source_uri |-> PStr("gs://kb/one.pdf"),
                  distance |-> PInt(1)])
CtxBare == PDict(<<"text">>, [text |-> PStr("doc one")])
\* the shape rag_retrieval builds: text and distance only
CtxRag == PDict(<<"text", "distance">>, [text |-> PStr(LongText), distance |-> PInt(2)])
CtxNoText == PDict(<<"source_uri">>, [source_uri |-> PStr("gs://kb/two.pdf")])
CtxTextNone == PDict(<<"text">>, [text |-> PNone])

WellFormedEvents ==
  { Event("model", PList(<<TextPart("A")>>)),
    Event("model", PList(<<TextPart("B")>>)),
    \* two texts in one event, around a tool result under the model role
    Event("model", PList(<<TextPart("A"), ToolResult(Contexts(<<CtxFull>>)), TextPart("B")>>)),
    Event("model", PList(<<TextPart("")>>)),
    Event("model", PList(<<Part("function_call", PDict(<<"name">>, [name |-> PStr("rag_retrieval")]))>>)),
    Event("user", PList(<<ToolResult(Contexts(<<CtxFull, CtxBare>>))>>)),
    Event("user", PList(<<ToolResult(Contexts(<<CtxRag>>))>>)),
    Event("user", PList(<<ToolResult(Contexts(<<CtxNoText>>))>>)),
    \* a text under the user role, and tool results that carry no contexts
    Event("user", PList(<<TextPart("A"), ToolResult(PDict(<<"result">>, [result |-> PStr("ok")])),
                          ToolResult(PStr("3 repositories"))>>)),
    \* a text and a tool result under a third role
    Event("tool", PList(<<TextPart("B"), ToolResult(Contexts(<<CtxBare>>))>>)) }

\* Events that are not a mapping, or a mapping without "content"
ShapelessEvents ==
  { PStr("keepalive"), PDict(<<"usage">>, [usage |-> PInt(7)]) }

\* Mappings with a missing or wrongly typed piece
MalformedEvents ==
  { PDict(<<"content">>, [content |-> PNone]),
    PDict(<<"content">>, [content |-> PDict(<<"role">>, [role |-> PStr("model")])]),
    Event("model", PNone),
    Event("model", PList(<<PInt(5)>>)),
    \* a model text that is no string
    Event("model", PList(<<Part("text", PInt(5))>>)),
    Event("user", PList(<<Part("function_response", PNone)>>)),
    Event("user", PList(<<ToolResult(PDict(<<"contexts">>, [contexts |-> PNone]))>>)),
    Event("user", PList(<<ToolResult(Contexts(<<PStr("raw passage"), CtxBare>>))>>)),
    Event("user", PList(<<ToolResult(Contexts(<<CtxTextNone>>))>>)),
    Event("tool", PNone) }

Events == WellFormedEvents \cup ShapelessEvents \cup MalformedEvents

\* create_session's result: with an id, with only a name, with an empty id
\* and a name, with a name that is no string, with neither
Sessions ==
  { PDict(<<"id">>, [id |-> PStr("s2")]),
    PDict(<<"name">>, [name |-> PStr("projects/p/sessions/s2")]),
    PDict(<<"id", "name">>, [id |-> PStr(""), name |-> PStr("sessions/s2")]),
    PDict(<<"name">>, [name |-> PNone]),
    EmptyDict,
    \* no mapping at all
    PNone }

\* str(e) of the exception stream_query raises
ErrorMessages == { "503 unavailable", "" }

\* The longest stream the model lets stream_query yield
MaxEvents == 2

\* The prompts send_prompt is called with
Prompts == { PStr("Tell me about Mohit"), PStr("") }

\* What earlier script runs can have left in st.session_state: nothing, a
\* finished turn on session s1, a finished turn whose session id came out empty
UserMessage(prompt) == PDict(<<"role", "content">>, [role |-> PStr("user"), content |-> prompt])
PriorTurn ==
  << UserMessage(PStr("List my articles")),
     PDict(<<"role", "content", "citations">>, [role |-> PStr("assistant"), content |-> PStr("A"), citations |-> PList(<<>>)]) >>
SessionStates ==
  { [messages |-> <<>>, session_id |-> PNone],
    [messages |-> PriorTurn, session_id |-> PStr("s1")],
    [messages |-> PriorTurn, session_id |-> PStr("")] }

\* os.environ: each variable unset (None from .get) or set
Environments ==
  [ GOOGLE_CLOUD_PROJECT : {PNone, PStr("my-project")},
    AGENT_RESOURCE_NAME : {PNone, PStr("reasoningEngines/42")} ]

\* The arguments and outcomes of the other tools
Retrievals ==
  { Done(PList(<<>>)),
    Done(PList(<<PDict(<<"text", "source_uri", "distance">>, [text |-> PStr("doc one"), source_uri |-> PStr("gs://kb/one.pdf"),
                        distance |-> PInt(1)])>>)),
    Done(PList(<<PDict(<<"text", "source_uri", "distance">>, [text |-> PStr(LongText), source_uri |-> PStr("gs://kb/two.pdf"),
                        distance |-> PInt(2)]),
                 PDict(<<"text", "source_uri">>, [text |-> PStr("doc one"), source_uri |-> PStr("gs://kb/one.pdf")])>>)),
    Done(PList(<<PDict(<<"source_uri">>, [source_uri |-> PStr("gs://kb/two.pdf")])>>)),
    Failed("RuntimeError", "quota exceeded"),
    Failed("TimeoutError", ""),
    Failed("google.api_core.exceptions.PermissionDenied", "403 caller lacks \"aiplatform.ragCorpora.query\"") }
\* The frame lines of a traceback taken in rag_retrieval, for the local agent
\* and for the deployed one: the frame of rag_retrieval itself (the frames
\* of the library below retrieval_query are left out of these samples)
FrameLines ==
  { [call |-> "  File \"/app/multi_tool/agent.py\", line 42, in rag_retrieval\n"
                \o "    response = rag.retrieval_query(\n"
                \o "               ^^^^^^^^^^^^^^^^^^^^\n",
     loop |-> "  File \"/app/multi_tool/agent.py\", line 51, in rag_retrieval\n"
                \o "    \"text\": context.text,\n"
                \o "            ^^^^^^^^^^^^\n"],
    [call |-> "  File \"/code/deployment/remote.py\", line 49, in rag_retrieval\n"
                \o "    response = rag.retrieval_query(\n"
                \o "               ^^^^^^^^^^^^^^^^^^^^\n",
     loop |-> "  File \"/code/deployment/remote.py\", line 58, in rag_retrieval\n"
                \o "    \"text\": context.text,\n"
                \o "            ^^^^^^^^^^^^\n"] }
MediumResponses ==
  { Response(200, "<rss/>", Failed("JSONDecodeError", "")),
    Response(404, "Not Found", Failed("JSONDecodeError", "")),
    Response(503, "", Failed("JSONDecodeError", "")),
    RequestFails("TimeoutException", "timed out"),
    RequestFails("ReadTimeout", "The read operation timed out"),
    RequestFails("ConnectTimeout", ""),
    RequestFails("ConnectError", "connection refused") }
Feeds ==
  { Feed(TRUE, "<unknown>:2:0: syntax error", <<>>),
    Feed(FALSE, "", <<>>),
    Feed(FALSE, "",
         <<PDict(<<"title", "published", "link", "tags">>, [title |-> PStr("Agents in production"),
                  published |-> PStr("Mon, 06 Jan 2025 10:00:00 GMT"),
                  link |-> PStr("https://medium.com/@mohitagr18/agents"),
                  tags |-> PList(<<PDict(<<"term">>, [term |-> PStr("ai")]), PDict(<<"term">>, [term |-> PStr("agents")]),
                                   PDict(<<"term">>, [term |-> PStr("rag")]), PDict(<<"term">>, [term |-> PStr("llm")]),
                                   PDict(<<"term">>, [term |-> PStr("python")]),
                                   PDict(<<"term">>, [term |-> PStr("cloud")])>>)]),
           PDict(<<"title">>, [title |-> PStr("Untagged")])>>) }

\* The arguments the runtime calls get_file_contents with
Owners == { "mohitagr18" }
Repos == { "my_website_chatbot" }
Paths == { "", "README.md" }

\* What httpx.get can do on the contents API: replies with a status other
\* than 200, a directory, a file (empty, text, with a truncated or a binary
\* content, without its size), a reply without content, a body that is not
\* JSON, and requests that raise
Responses ==
  { Response(404, "{\"message\": \"Not Found\"}",
             Done(PDict(<<"message">>, [message |-> PStr("Not Found")]))),
    Response(403, LongText,
             Failed("JSONDecodeError", "Extra data: line 1 column 2 (char 1)")),
    Response(500, "<html>Server Error</html>",
             Failed("JSONDecodeError", "Expecting value: line 1 column 1 (char 0)")),
    Response(200, "[{\"name\": \"README.md\", \"type\": \"file\"}, {\"name\": \"src\", \"type\": \"dir\"}]",
             Done(PList(<<PDict(<<"name", "type">>, [name |-> PStr("README.md"), type |-> PStr("file")]),
                         PDict(<<"name", "type">>, [name |-> PStr("src"), type |-> PStr("dir")])>>))),
    Response(200, "[]",
             Done(PList(<<>>))),
    Response(200, "[{\"name\": \"README.md\"}]",
             Done(PList(<<PDict(<<"name">>, [name |-> PStr("README.md")])>>))),
    Response(200, "{\"content\": \"\", \"size\": 0}",
             Done(PDict(<<"content", "size">>, [content |-> PStr(""), size |-> PInt(0)]))),
    Response(200, "{\"content\": \"aGkK\\n\", \"size\": 3}",
             Done(PDict(<<"content", "size">>, [content |-> PStr("aGkK\n"), size |-> PInt(3)]))),
    Response(200, "{\"content\": \"aGk\", \"size\": 2}",
             Done(PDict(<<"content", "size">>, [content |-> PStr("aGk"), size |-> PInt(2)]))),
    Response(200, "{\"content\": \"/w==\", \"size\": 1}",
             Done(PDict(<<"content", "size">>, [content |-> PStr("/w=="), size |-> PInt(1)]))),
    Response(200, "{\"content\": \"aGk=\"}",
             Done(PDict(<<"content">>, [content |-> PStr("aGk=")]))),
    Response(200, "{\"name\": \"docs\"}",
             Done(PDict(<<"name">>, [name |-> PStr("docs")]))),
    Response(200, "{\"type\": \"submodule\", \"name\": \"lib\", \"size\": 0}",
             Done(PDict(<<"type", "name", "size">>,
                        [type |-> PStr("submodule"), name |-> PStr("lib"), size |-> PInt(0)]))),
    Response(200, "{\"id\": 1, \"name\": \"docs\"}",
             Done(PDict(<<"id", "name">>, [id |-> PInt(1), name |-> PStr("docs")]))),
    Response(200, "{\"a\\\"b\": 1}",
             Done(PDict(<<"a\"b">>, [k \in {"a\"b"} |-> PInt(1)]))),
    Response(200, "not json",
             Failed("JSONDecodeError", "Expecting value: line 1 column 1 (char 0)")),
    RequestFails("TimeoutException", "timed out"),
    RequestFails("ReadTimeout", "The read operation timed out"),
    RequestFails("ConnectTimeout", ""),
    RequestFails("ConnectError", "connection refused") }

\* ------------------------------------------------------------------------
\* State
\* ------------------------------------------------------------------------
VARIABLES
  environ,         \* os.environ, read by every operation
  messages,        \* st.session_state.messages
  session_id,      \* st.session_state.session_id
  is_sending,      \* st.session_state.is_sending
  pending_prompt,  \* st.session_state.pending_prompt
  op,              \* the operation the process runs ("none" before it starts)
  pc,              \* where the operation stands
  qa_session_id,   \* query_agent's local session_id
  events,          \* query_agent's local events list
  stream_error,    \* str(e) of the exception stream_query raised, None if it did not
  outcome,         \* what query_agent did: returned a dict, or raised
  calls,           \* the calls made to the remote service, in order
  displayed,       \* what the operation showed last: the answer, a warning, an error
  tool,            \* the tool call the agent runtime made: arguments, reply, result
  run              \* the chat UI's script run: where it stands, its inputs, its log

vars == << environ, messages, session_id, is_sending, pending_prompt, op, pc,
           qa_session_id, events, stream_error, outcome, calls, displayed, tool, run >>

\* No script run of the chat UI is under way
NoRun == [phase |-> "wait", chat |-> PNone, origin |-> "", prompt |-> PNone,
          passed |-> PNone, flag |-> FALSE, before |-> <<>>, log |-> <<>>, seen |-> {}]

\* No tool has been called
NoTool == [owner |-> "", repo |-> "", path |-> "", response |-> RequestFails("", ""),
           result |-> PNone]

NoOutcome == [kind |-> "none", exc |-> Exc("", ""), value |-> PNone]
Returned(kind, v) == [kind |-> kind, exc |-> Exc("", ""), value |-> v]
Raised(e) == [kind |-> "raised", exc |-> e, value |-> PNone]

Shown(kind, text) == [kind |-> kind, text |-> text]
Nothing == Shown("nothing", PNone)

Init ==
  /\ environ \in Environments
  /\ \E st \in SessionStates : messages = st.messages /\ session_id = st.session_id
  /\ is_sending = FALSE
  /\ pending_prompt = PNone
  /\ op = "none"
  /\ pc = "idle"
  /\ qa_session_id = PNone
  /\ events = <<>>
  /\ stream_error = PNone
  /\ outcome = NoOutcome
  /\ calls = <<>>
  /\ displayed = Nothing
  /\ tool = NoTool
  /\ run = NoRun

\* ------------------------------------------------------------------------
\* query_agent and send_prompt
\* ------------------------------------------------------------------------
\* init_vertexai (agent_client.py 10-19): the calls it makes, or none when it raises
init_vertexai(env) ==
  IF ~Truthy(env.GOOGLE_CLOUD_PROJECT)
    THEN [raised |-> TRUE,
          exc |-> Exc("ValueError", "GOOGLE_CLOUD_PROJECT environment variable is required"),
          calls |-> <<>>]
    ELSE [raised |-> FALSE, exc |-> Exc("", ""), calls |-> <<"vertexai.init">>]

\* get_agent (agent_client.py 22-36)
get_agent(env) ==
  LET i == init_vertexai(env)
  IN IF i.raised THEN i ELSE [i EXCEPT !.calls = Append(@, "agent_engines.get")]

\* Every st.* call is a point where Streamlit's script runner stops the run
\* when the user has interacted (or left) since the run began: the call
\* raises RerunException or StopException before it shows anything. Both are
\* BaseException: `except Exception` does not catch them, a `finally` runs,
\* and the exception leaves send_prompt and ends the script run. The actions
\* below take the stop as an input: the line of the st.* call that raised, 0
\* (or FALSE) when none did. pc = "stopped" is send_prompt left that way.

\* except Exception as e: st.markdown(f":x: Error: ..."); finally: is_sending = False
\* (streamlit_app.py 334-337); stopped: the st.markdown of line 335 raised
CatchInSendPrompt(e, stopped) ==
  /\ displayed' = IF stopped THEN displayed ELSE Shown("exception", PStr(":x: Error: " \o e.msg))
  /\ is_sending' = FALSE
  /\ pc' = IF stopped THEN "stopped" ELSE "done"

\* A test that only takes None for a missing session
SessionIsNone(sid) == sid = PNone

\* if not session_id: (agent_client.py 62)
NoSession(sid) == ~Truthy(sid)

\* A guard that looks at the prompt only
EmptyPrompt(prompt, sending) == ~Truthy(prompt)

\* if not prompt or st.session_state.is_sending: return (lines 189-190)
Guarded(prompt, sending) == ~Truthy(prompt) \/ sending

\* send_prompt up to query_agent's first wait on the remote service
\* (streamlit_app.py 188-226, agent_client.py 60-75). stop is the st.* call
\* at which Streamlit stops the run, 0 for none:
\*   195  the user block (195, 196) or the opening of the assistant block
\*        (199), after is_sending = True and the append and before the try:
\*        no finally runs, the flag stays set
\*   203  the warning of a missing AGENT_RESOURCE_NAME, inside the try
\*   216  the status widget and the thinking message (216-219), inside the try
\*   335  the st.markdown of the except clause
SendPrompt(prompt, getFails, stop) ==
  /\ pc = "idle" /\ op = "none"
  /\ op' = "send_prompt"
  /\ UNCHANGED << run, tool, environ, session_id, pending_prompt, events, stream_error, outcome >>
  /\ IF Guarded(prompt, is_sending)
       THEN /\ stop = 0
            /\ pc' = "done"
            /\ UNCHANGED << messages, is_sending, qa_session_id, calls, displayed >>
       ELSE /\ messages' = Append(messages, UserMessage(prompt))
            /\ IF stop = 195
                 THEN /\ is_sending' = TRUE
                      /\ pc' = "stopped"
                      /\ UNCHANGED << qa_session_id, calls, displayed >>
               ELSE IF ~Truthy(environ.AGENT_RESOURCE_NAME)
                 THEN /\ stop \in {0, 203}
                      /\ displayed' = IF stop = 203 THEN displayed
                                      ELSE Shown("warning", PStr(":warning: AGENT_RESOURCE_NAME not set"))
                      /\ is_sending' = FALSE
                      /\ pc' = IF stop = 203 THEN "stopped" ELSE "done"
                      /\ UNCHANGED << qa_session_id, calls >>
               ELSE IF stop = 216
                 THEN /\ is_sending' = FALSE
                      /\ pc' = "stopped"
                      /\ UNCHANGED << qa_session_id, calls, displayed >>
                 ELSE LET agent == get_agent(environ) IN
                      IF agent.raised
                        THEN /\ stop \in {0, 335}
                             /\ CatchInSendPrompt(agent.exc, stop = 335)
                             /\ calls' = agent.calls
                             /\ UNCHANGED qa_session_id
                      ELSE IF getFails
                        THEN /\ stop \in {0, 335}
                             /\ CatchInSendPrompt(Exc("NotFound", "404 reasoning engine not found"), stop = 335)
                             /\ calls' = agent.calls
                             /\ UNCHANGED qa_session_id
                      ELSE /\ stop = 0
                           /\ is_sending' = TRUE
                           /\ UNCHANGED displayed
                           /\ IF NoSession(session_id)
                                THEN /\ pc' = "create_session"
                                     /\ calls' = agent.calls
                                     /\ UNCHANGED qa_session_id
                                ELSE /\ pc' = "stream"
                                     /\ calls' = Append(agent.calls, "stream_query")
                                     /\ qa_session_id' = session_id

\* session.get("id") or session.get("name", "").split("/")[-1]
SessionIdOf(session) ==
  LET id == PyGet(session, "id", PNone)
      name == PyGet(session, "name", PStr("")).v
  IN IF ~id.ok THEN Raises(id.exc)
     ELSE IF Truthy(id.v) THEN Ok(id.v)
     ELSE IF name.ty # "str" THEN Raises(Exc("AttributeError", "'" \o TypeName(name) \o "' object has no attribute 'split'"))
     ELSE Ok(PStr(LastSegment(name.s)))

\* agent.create_session returns (agent_client.py 64-65), then stream_query is
\* called; when line 65 raises, send_prompt's except clause runs, and stopped
\* says that its st.markdown raised
CreateSession(session, stopped) ==
  /\ pc = "create_session"
  /\ LET sid == SessionIdOf(session) IN
     IF sid.ok
       THEN /\ ~stopped
            /\ qa_session_id' = sid.v
            /\ calls' = calls \o <<"create_session", "stream_query">>
            /\ pc' = "stream"
            /\ UNCHANGED << displayed, is_sending >>
       ELSE /\ calls' = Append(calls, "create_session")
            /\ CatchInSendPrompt(sid.exc, stopped)
            /\ UNCHANGED qa_session_id
  /\ UNCHANGED << run, tool, environ, messages, session_id, pending_prompt, op, events, stream_error, outcome >>

\* agent.create_session raises an exception of the service with str(e) = msg:
\* nothing in query_agent catches it
CreateSessionFails(msg, stopped) ==
  /\ pc = "create_session"
  /\ calls' = Append(calls, "create_session")
  /\ CatchInSendPrompt(Exc("ServiceUnavailable", msg), stopped)
  /\ UNCHANGED << run, tool, environ, messages, session_id, pending_prompt, op, qa_session_id,
                  events, stream_error, outcome >>

\* A collector that keeps the latest event only
CollectLatest(evs, event) == <<event>>

\* events.append(event) (agent_client.py 77)
Collect(evs, event) == Append(evs, event)

\* stream_query yields an event: events.append(event) (agent_client.py 71-77)
StreamYield(event) ==
  /\ pc = "stream"
  /\ Len(events) < MaxEvents
  /\ events' = Collect(events, event)
  /\ UNCHANGED << run, tool, environ, messages, session_id, is_sending, pending_prompt, op, pc,
                  qa_session_id, stream_error, outcome, calls, displayed >>

\* An error string without the exception's message
ErrorResponseBare(msg) == PStr("Error querying agent")

\* f"Error querying agent: {str(e)}"
ErrorResponse(msg) == PStr("Error querying agent: " \o msg)

\* An except branch that forgets the session
ErrorResultNoSession(msg, evs, sid) ==
  PDict(<<"response", "citations", "events", "session_id">>, [response |-> PStr("Error querying agent: " \o msg),
         citations |-> PList(<<>>),
         events |-> PList(evs),
         session_id |-> PNone])

\* The dict of the except branch (agent_client.py 78-84)
ErrorResult(msg, evs, sid) ==
  PDict(<<"response", "citations", "events", "session_id">>, [response |-> ErrorResponse(msg),
         citations |-> PList(<<>>),
         events |-> PList(evs),
         session_id |-> sid])

\* An except branch that hands back an empty events list
ExceptBranchNoEvents(msg, evs, sid) == Returned("transport_error", ErrorResult(msg, <<>>, sid))

\* try: ... except Exception as e: return {...} (agent_client.py 70-84)
ExceptBranch(msg, evs, sid) == Returned("transport_error", ErrorResult(msg, evs, sid))

\* stream_query raises during the iteration
StreamRaise(msg) ==
  /\ pc = "stream"
  /\ stream_error' = PStr(msg)
  /\ outcome' = ExceptBranch(msg, events, qa_session_id)
  /\ pc' = IF outcome'.kind = "raised" THEN "raised" ELSE "returned"
  /\ UNCHANGED << run, tool, environ, messages, session_id, is_sending, pending_prompt, op,
                  qa_session_id, events, calls, displayed >>

\* The citations of the assistant message stored last, none when there is none
StoredCitations ==
  LET stored == { i \in 1..Len(messages) : "citations" \in DOMAIN messages[i].d }
  IN IF stored = {} THEN <<>>
     ELSE messages[CHOOSE i \in stored : \A k \in stored : k <= i].d["citations"].l

\* A reduction whose citations list outlives the call: it starts from the
\* citations of the turn before
StreamEndKeepingCitations ==
  /\ pc = "stream"
  /\ LET acc == ReduceFrom([Acc0 EXCEPT !.citations = StoredCitations], events, 1) IN
     IF acc.raised
       THEN /\ outcome' = Raised(acc.exc)
            /\ pc' = "raised"
       ELSE /\ outcome' = Returned("normal",
                             PDict(<<"response", "citations", "events", "session_id">>,
                                   [response |-> FinalResponse(acc.response_text),
                                    citations |-> PList(acc.citations),
                                    events |-> PList(events),
                                    session_id |-> qa_session_id]))
            /\ pc' = "returned"
  /\ UNCHANGED << run, tool, environ, messages, session_id, is_sending, pending_prompt, op,
                  qa_session_id, events, stream_error, calls, displayed >>

\* The stream ends: the events are reduced (agent_client.py 88-123)
StreamEnd ==
  /\ pc = "stream"
  /\ LET r == ReduceResult(events, qa_session_id) IN
     IF r.raised
       THEN /\ outcome' = Raised(r.exc)
            /\ pc' = "raised"
       ELSE /\ outcome' = Returned("normal", r.value)
            /\ pc' = "returned"
  /\ UNCHANGED << run, tool, environ, messages, session_id, is_sending, pending_prompt, op,
                  qa_session_id, events, stream_error, calls, displayed >>

\* query_agent raised: send_prompt's except and finally (streamlit_app.py 334-337)
CatchException(stopped) ==
  /\ pc = "raised"
  /\ CatchInSendPrompt(outcome.exc, stopped)
  /\ UNCHANGED << run, tool, environ, messages, session_id, pending_prompt, op, qa_session_id,
                  events, stream_error, outcome, calls >>

\* A rest of send_prompt that stores an assistant message on every exit
FinishSendAlwaysStores(stop) ==
  /\ pc = "returned"
  /\ stop \in {0, 229, 269, 317}
  /\ LET turn == UiTurn(outcome.value) IN
     /\ stop = 317 => ~turn.raised /\ Truthy(turn.message.d["citations"])
     /\ session_id' = IF stop = 229 THEN session_id ELSE turn.session_id
     /\ IF turn.raised \/ stop # 0
          THEN /\ displayed' = IF stop = 317 THEN Shown("answer", turn.message.d["content"])
                               ELSE IF stop # 0 THEN displayed
                               ELSE Shown("exception", PStr(":x: Error: " \o turn.exc.msg))
               /\ messages' = Append(messages,
                                     PDict(<<"role", "content", "citations">>, [role |-> PStr("assistant"), content |-> PStr(":x: Error: " \o turn.exc.msg),
                                            citations |-> PList(<<>>)]))
          ELSE /\ displayed' = Shown("answer", turn.message.d["content"])
               /\ messages' = Append(messages, turn.message)
  /\ is_sending' = FALSE
  /\ pc' = IF stop # 0 THEN "stopped" ELSE "done"
  /\ UNCHANGED << run, tool, environ, pending_prompt, op, qa_session_id, events, stream_error,
                  outcome, calls >>

\* query_agent returned: the rest of send_prompt (streamlit_app.py 229-337).
\* stop is the st.* call at which Streamlit stops the run, 0 for none:
\*   229  thinking_placeholder.empty(), before line 231 stores the session id
\*   269  a later one up to the answer: the tool lines (248-265),
\*        status.update (269, 275), the st.markdown of the answer (314), or
\*        the st.markdown of the except clause (335) when the turn raises:
\*        the session id is stored, nothing is shown, no assistant message
\*        is stored
\*   317  one of the sources (317-327), which are shown when there are
\*        citations: the answer is on the page (314), no assistant message
\*        is stored
\* The last st.* call (327) comes before the append of line 330, so a run
\* that appends the assistant message is not stopped in send_prompt any more.
FinishSend(stop) ==
  /\ pc = "returned"
  /\ stop \in {0, 229, 269, 317}
  /\ LET turn == UiTurn(outcome.value) IN
     /\ stop = 317 => ~turn.raised /\ Truthy(turn.message.d["citations"])
     /\ session_id' = IF stop = 229 THEN session_id ELSE turn.session_id
     /\ IF stop = 317
          THEN /\ displayed' = Shown("answer", turn.message.d["content"])
               /\ UNCHANGED messages
        ELSE IF stop # 0
          THEN UNCHANGED << displayed, messages >>
        ELSE IF turn.raised
          THEN /\ displayed' = Shown("exception", PStr(":x: Error: " \o turn.exc.msg))
               /\ UNCHANGED messages
          ELSE /\ displayed' = Shown("answer", turn.message.d["content"])
               /\ messages' = Append(messages, turn.message)
  /\ is_sending' = FALSE
  /\ pc' = IF stop # 0 THEN "stopped" ELSE "done"
  /\ UNCHANGED << run, tool, environ, pending_prompt, op, qa_session_id, events, stream_error,
                  outcome, calls >>

\* ------------------------------------------------------------------------
\* The deployment scripts
\* ------------------------------------------------------------------------
Finished(c, kind, text) == [calls |-> c, shown |-> Shown(kind, PStr(text))]

\* create_remote_agent (remote.py 515-587)
create_remote_agent(env, staging_bucket) ==
  IF ~Truthy(env.GOOGLE_CLOUD_PROJECT)
    THEN Finished(<<>>, "exception", "ValueError")
  ELSE IF ~Truthy(staging_bucket)
    THEN Finished(<<>>, "exception", "ValueError")
  ELSE Finished(<<"vertexai.init", "agent_engines.create">>, "ok", "DEPLOYMENT SUCCESSFUL")

\* delete_remote_agent (remote.py 590-600): the project is read and passed on
\* as it is
delete_remote_agent(env, resource_name) ==
  Finished(<<"vertexai.init", "agent_engines.delete">>, "ok", "Agent deleted")

\* list_remote_agents (remote.py 603-618)
list_remote_agents(env) ==
  IF ~Truthy(env.GOOGLE_CLOUD_PROJECT)
    THEN Finished(<<>>, "exception", "ValueError")
    ELSE Finished(<<"vertexai.init", "agent_engines.list">>, "ok", "Listing agents")

\* A dispatcher that also takes create-session and send-message
mainWithSessions(env, argv, staging_bucket) ==
  IF Len(argv) < 1 THEN Finished(<<>>, "exit", "Usage:")
  ELSE LET command == argv[1] IN
    CASE command = "create-agent" -> create_remote_agent(env, staging_bucket)
      [] command = "create-session" ->
           Finished(<<"vertexai.init", "create_session">>, "ok", "Session created:")
      [] command = "send-message" ->
           Finished(<<"vertexai.init", "stream_query">>, "ok", "Response:")
      [] command = "delete-agent" ->
           IF Len(argv) < 2
             THEN Finished(<<>>, "exit", "Error: delete-agent requires resource_name")
             ELSE delete_remote_agent(env, argv[2])
      [] command = "list-agents" -> list_remote_agents(env)
      [] OTHER -> Finished(<<>>, "exit", "Unknown command")

\* main (remote.py 621-643); argv is sys.argv[1:]
main(env, argv, staging_bucket) ==
  IF Len(argv) < 1 THEN Finished(<<>>, "exit", "Usage:")
  ELSE LET command == argv[1] IN
    CASE command = "create-agent" -> create_remote_agent(env, staging_bucket)
      [] command = "delete-agent" ->
           IF Len(argv) < 2
             THEN Finished(<<>>, "exit", "Error: delete-agent requires resource_name")
             ELSE delete_remote_agent(env, argv[2])
      [] command = "list-agents" -> list_remote_agents(env)
      [] OTHER -> Finished(<<>>, "exit", "Unknown command")

\* The command lines the CLI is started with
CommandLines ==
  { <<>>, <<"create-agent">>, <<"delete-agent">>, <<"delete-agent", "reasoningEngines/42">>,
    <<"list-agents">>, <<"create-session">>, <<"send-message">>, <<"status">> }
StagingBuckets == { PNone, PStr("gs://staging") }

\* python -m deployment.remote <argv>
RemoteMain(argv, staging_bucket) ==
  /\ pc = "idle" /\ op = "none"
  /\ LET r == main(environ, argv, staging_bucket) IN
     /\ calls' = r.calls
     /\ displayed' = r.shown
  /\ op' = IF Len(argv) < 1 THEN "usage" ELSE argv[1]
  /\ pc' = "done"
  /\ UNCHANGED << run, tool, environ, messages, session_id, is_sending, pending_prompt,
                  qa_session_id, events, stream_error, outcome >>

\* deploy (deploy_with_mcp.py 13-90)
deploy(env, pathsExist) ==
  IF ~pathsExist THEN Finished(<<>>, "exception", "FileNotFoundError")
  ELSE Finished(<<"vertexai.init", "agent_engines.create">>, "ok", "DEPLOYMENT SUCCESSFUL")

\* python deployment/deploy_with_mcp.py
DeployWithMcp(pathsExist) ==
  /\ pc = "idle" /\ op = "none"
  /\ LET r == deploy(environ, pathsExist) IN
     /\ calls' = r.calls
     /\ displayed' = r.shown
  /\ op' = "deploy_with_mcp"
  /\ pc' = "done"
  /\ UNCHANGED << run, tool, environ, messages, session_id, is_sending, pending_prompt,
                  qa_session_id, events, stream_error, outcome >>

\* main (local.py 15-61): GOOGLE_API_KEY2 is copied first, then project and
\* location are required
local_main(env, apiKey2, location) ==
  IF ~(apiKey2.ty = "str") THEN Finished(<<>>, "exception", "TypeError")
  ELSE IF ~Truthy(env.GOOGLE_CLOUD_PROJECT) THEN Finished(<<>>, "exit", "Missing required environment variable: GOOGLE_CLOUD_PROJECT")
  ELSE IF ~Truthy(location) THEN Finished(<<>>, "exit", "Missing required environment variable: GOOGLE_CLOUD_LOCATION")
  ELSE Finished(<<"vertexai.init", "create_session", "list_sessions", "stream_query">>,
                "ok", "Session created:")

\* python deployment/local.py
LocalMain(apiKey2, location) ==
  /\ pc = "idle" /\ op = "none"
  /\ LET r == local_main(environ, apiKey2, location) IN
     /\ calls' = r.calls
     /\ displayed' = r.shown
  /\ op' = "local"
  /\ pc' = "done"
  /\ UNCHANGED << run, tool, environ, messages, session_id, is_sending, pending_prompt,
                  qa_session_id, events, stream_error, outcome >>

\* ------------------------------------------------------------------------
\* The tools, as the agent runtime calls them
\* ------------------------------------------------------------------------
\* The runtime calls get_file_contents of multi_tool/agent.py; r is what
\* httpx.get does
GetFileContents(owner, repo, path, r) ==
  /\ pc = "idle" /\ op = "none"
  /\ op' = "get_file_contents"
  /\ calls' = <<"httpx.get">>
  /\ tool' = [owner |-> owner, repo |-> repo, path |-> path, response |-> r,
              result |-> get_file_contents(owner, repo, path, r)]
  /\ pc' = "done"
  /\ UNCHANGED << run, environ, messages, session_id, is_sending, pending_prompt,
                  qa_session_id, events, stream_error, outcome, displayed >>

\* The runtime calls the copy that create_agent of remote.py defines
InlineGetFileContents(owner, repo, path, r) ==
  /\ pc = "idle" /\ op = "none"
  /\ op' = "inline_get_file_contents"
  /\ calls' = <<"httpx.get">>
  /\ tool' = [owner |-> owner, repo |-> repo, path |-> path, response |-> r,
              result |-> inline_get_file_contents(owner, repo, path, r)]
  /\ pc' = "done"
  /\ UNCHANGED << run, environ, messages, session_id, is_sending, pending_prompt,
                  qa_session_id, events, stream_error, outcome, displayed >>

\* What os.environ can hold under GITHUB_USERNAME: nothing, a user, or the
\* empty string
GithubUsernames == { PNone, PStr("octocat"), PStr("") }

\* The runtime calls list_repositories; the two copies are the same code
ListRepositories(username, env, r) ==
  /\ pc = "idle" /\ op = "none"
  /\ op' = "list_repositories"
  /\ calls' = <<"httpx.get " \o ReposUrl(username, env)>>
  /\ tool' = [username |-> username, env |-> env, response |-> r,
              result |-> list_repositories(username, r)]
  /\ pc' = "done"
  /\ UNCHANGED << run, environ, messages, session_id, is_sending, pending_prompt,
                  qa_session_id, events, stream_error, outcome, displayed >>

\* The runtime calls get_repository_info; the two copies are the same code
GetRepositoryInfo(owner, repo, r) ==
  /\ pc = "idle" /\ op = "none"
  /\ op' = "get_repository_info"
  /\ calls' = <<"httpx.get https://api.github.com/repos/" \o owner \o "/" \o repo>>
  /\ tool' = [owner |-> owner, repo |-> repo, response |-> r,
              result |-> get_repository_info(owner, repo, r)]
  /\ pc' = "done"
  /\ UNCHANGED << run, environ, messages, session_id, is_sending, pending_prompt,
                  qa_session_id, events, stream_error, outcome, displayed >>

\* The runtime calls rag_retrieval; rag.retrieval_query is called only when
\* RAG_CORPUS is set
RagRetrieval(rag_corpus, query, r, frames) ==
  /\ pc = "idle" /\ op = "none"
  /\ op' = "rag_retrieval"
  /\ calls' = IF Truthy(rag_corpus) THEN <<"rag.retrieval_query">> ELSE <<>>
  /\ tool' = [rag_corpus |-> rag_corpus, query |-> query, response |-> r,
              result |-> rag_retrieval(rag_corpus, query, r, frames)]
  /\ pc' = "done"
  /\ UNCHANGED << run, environ, messages, session_id, is_sending, pending_prompt,
                  qa_session_id, events, stream_error, outcome, displayed >>

\* The runtime calls list_medium_articles of create_agent
ListMediumArticles(env, r, feed) ==
  /\ pc = "idle" /\ op = "none"
  /\ op' = "list_medium_articles"
  /\ calls' = <<"httpx.get https://medium.com/feed/@" \o GITHUB_USERNAME(env)>>
  /\ tool' = [env |-> env, response |-> r, feed |-> feed,
              result |-> list_medium_articles(env, r, feed)]
  /\ pc' = "done"
  /\ UNCHANGED << run, environ, messages, session_id, is_sending, pending_prompt,
                  qa_session_id, events, stream_error, outcome, displayed >>

\* One operation, from its start to its end: a tool called by the agent
\* runtime, send_prompt called once by a script run that found no pending
\* prompt left over (pending_prompt is None in Init and stays so), or a
\* command line. What the script does around send_prompt over several runs
\* (the Clear button, a pending prompt taken and reset, a second send in the
\* same run) is NextChat below.
Next ==
  \/ \E u \in { PNone, PStr(""), PStr("octocat") }, env \in GithubUsernames, r \in Responses :
       ListRepositories(u, env, r)
  \/ \E o \in Owners, rp \in Repos, r \in Responses : GetRepositoryInfo(o, rp, r)
  \/ \E c \in { PNone, PStr(""), PStr("projects/p/locations/us-central1/ragCorpora/7") },
          q \in { "skills" }, r \in Retrievals, f \in FrameLines : RagRetrieval(c, q, r, f)
  \/ \E env \in GithubUsernames, r \in MediumResponses, f \in Feeds :
       ListMediumArticles(env, r, f)
  \/ \E p \in Prompts, f \in BOOLEAN, stop \in {0, 195, 203, 216, 335} : SendPrompt(p, f, stop)
  \/ \E s \in Sessions, stopped \in BOOLEAN : CreateSession(s, stopped)
  \/ \E m \in ErrorMessages, stopped \in BOOLEAN : CreateSessionFails(m, stopped)
  \/ \E e \in Events : StreamYield(e)
  \/ \E m \in ErrorMessages : StreamRaise(m)
  \/ StreamEnd
  \/ \E stopped \in BOOLEAN : CatchException(stopped)
  \/ \E stop \in {0, 229, 269, 317} : FinishSend(stop)
  \/ \E argv \in CommandLines, b \in StagingBuckets : RemoteMain(argv, b)
  \/ \E e \in BOOLEAN : DeployWithMcp(e)
  \/ \E k \in {PNone, PStr("key")}, l \in {PNone, PStr("us-central1")} : LocalMain(k, l)
  \/ \E o \in Owners, rp \in Repos, p \in Paths, r \in Responses : GetFileContents(o, rp, p, r)
  \/ \E o \in Owners, rp \in Repos, p \in Paths, r \in Responses :
       InlineGetFileContents(o, rp, p, r)

Spec == Init /\ [][Next]_vars

\* ------------------------------------------------------------------------
\* The chat UI over several script runs (streamlit_app.py 83-90, 137-172,
\* 339-347). Streamlit runs the script from top to bottom on every
\* interaction; st.session_state (messages, session_id, is_sending,
\* pending_prompt) lives on between runs. run.log keeps what happened, in
\* order: a Clear Chat History, a click on a quick prompt, a call of
\* send_prompt with what it was given and how it ended.
\* ------------------------------------------------------------------------

\* The number of entries the log of one behaviour may reach: a script run
\* starts only if what it will log fits
MaxLog == 3

\* What the widgets of one run can report
Chips == { PNone, PStr("Tell me about Mohit") }
ChatInputs == { PNone, PStr("What projects does Mohit have?") }
\* What the remote service does during a chat
ChatSessions == { PDict(<<"id">>, [id |-> PStr("s2")]), PDict(<<"id">>, [id |-> PStr("s3")]), EmptyDict }
ChatEvents ==
  { Event("model", PList(<<TextPart("A")>>)),
    Event("user", PList(<<ToolResult(Contexts(<<CtxFull>>))>>)),
    PDict(<<"content">>, [content |-> PNone]) }
\* The streams stream_query yields during a chat: an empty one, and one of
\* each kind of turn (an answer, a tool result, an event the reducers raise on)
ChatStreams == { <<>> } \cup { <<e>> : e \in ChatEvents }

Logged(entry) == [run EXCEPT !.log = Append(@, entry)]

\* A pending prompt that is sent without being reset
KeepPending(pending) == pending

\* st.session_state.pending_prompt = None (line 342)
ResetPending(pending) == PNone

\* A Clear Chat History that empties the history and keeps the session
ClearChatKeepingSession ==
  /\ run.phase = "wait" /\ pc = "idle"
  /\ Len(run.log) < MaxLog
  /\ messages' = <<>>
  /\ run' = [Logged([kind |-> "clear"]) EXCEPT !.phase = "rerun", !.chat = PNone]
  /\ UNCHANGED << environ, session_id, is_sending, pending_prompt, op, pc, qa_session_id,
                  events, stream_error, outcome, calls, displayed, tool >>

\* The user clicks Clear Chat History: the run of that click executes lines
\* 137-140 and ends at st.rerun() (line 140), before the quick prompts and
\* the input orchestration
ClearChat ==
  /\ run.phase = "wait" /\ pc = "idle"
  /\ Len(run.log) < MaxLog
  /\ messages' = <<>>
  /\ session_id' = PNone
  /\ run' = [Logged([kind |-> "clear"]) EXCEPT !.phase = "rerun", !.chat = PNone]
  /\ UNCHANGED << environ, is_sending, pending_prompt, op, pc, qa_session_id, events,
                  stream_error, outcome, calls, displayed, tool >>

\* The run st.rerun() asked for: no widget reports anything, so the script
\* reaches line 340 with pending_prompt as it was. stopped: Streamlit stopped
\* this run at an st.* call before line 340 (the user clicked again), so that
\* nothing is read and the next run is the one of that click
Rerun(stopped) ==
  /\ run.phase = "rerun"
  /\ run' = [run EXCEPT !.phase = IF stopped THEN "wait" ELSE "pending"]
  /\ UNCHANGED << environ, messages, session_id, is_sending, pending_prompt, op, pc,
                  qa_session_id, events, stream_error, outcome, calls, displayed, tool >>

\* A script run down to the input orchestration: a clicked quick prompt is
\* stored in pending_prompt (lines 157-172), the chat input is read at line
\* 345. A run starts when a widget reports something or when an earlier run
\* left a pending prompt. stopped: Streamlit stopped the run at an st.* call
\* between the button that stored the prompt and line 339, so that the
\* prompt stays in pending_prompt for a later run
ScriptRun(chip, chat, stopped) ==
  /\ run.phase = "wait" /\ pc = "idle"
  /\ chip # PNone \/ chat # PNone \/ Truthy(pending_prompt)
  /\ stopped => chip # PNone
  /\ pending_prompt' = IF chip # PNone THEN chip ELSE pending_prompt
  /\ Len(run.log) + (IF chip # PNone THEN 1 ELSE 0)
       + (IF stopped THEN 0
          ELSE (IF Truthy(pending_prompt') THEN 1 ELSE 0) + (IF chat # PNone THEN 1 ELSE 0))
       <= MaxLog
  /\ run' = [(IF chip # PNone THEN Logged([kind |-> "chip", prompt |-> chip]) ELSE run)
               EXCEPT !.phase = IF stopped THEN "wait" ELSE "pending",
                      !.chat = IF stopped THEN PNone ELSE chat]
  /\ UNCHANGED << environ, messages, session_id, is_sending, op, pc, qa_session_id, events,
                  stream_error, outcome, calls, displayed, tool >>

\* pending = st.session_state.pending_prompt; if pending: reset it (340-342);
\* send_prompt(pending) is the next step
TakePending ==
  /\ run.phase = "pending"
  /\ IF Truthy(pending_prompt)
       THEN /\ pending_prompt' = ResetPending(pending_prompt)
            /\ run' = [run EXCEPT !.phase = "call", !.origin = "pending",
                                  !.prompt = pending_prompt, !.passed = session_id,
                                  !.flag = is_sending, !.before = messages]
       ELSE /\ run' = [run EXCEPT !.phase = "input"]
            /\ UNCHANGED pending_prompt
  /\ UNCHANGED << environ, messages, session_id, is_sending, op, pc, qa_session_id, events,
                  stream_error, outcome, calls, displayed, tool >>

\* prompt = st.chat_input(...); if prompt: send_prompt(prompt) (345-347);
\* stopped: st.chat_input is where Streamlit stopped the run, nothing is sent
TakeInput(stopped) ==
  /\ run.phase = "input"
  /\ run' = IF Truthy(run.chat) /\ ~stopped
              THEN [run EXCEPT !.phase = "call", !.origin = "chat", !.prompt = run.chat,
                               !.passed = session_id, !.flag = is_sending,
                               !.before = messages]
              ELSE [run EXCEPT !.phase = "wait", !.chat = PNone]
  /\ UNCHANGED << environ, messages, session_id, is_sending, pending_prompt, op, pc,
                  qa_session_id, events, stream_error, outcome, calls, displayed, tool >>

\* For run.seen, which keeps what the sends of the chat reduced: the events
\* query_agent collected in this send and the response and citations it made
\* of them; nothing when it did not return from the reduction
Reduction ==
  IF outcome.kind = "normal"
    THEN { [events |-> events, response |-> outcome.value.d["response"],
            citations |-> outcome.value.d["citations"]] }
    ELSE {}

\* send_prompt returns to the script: its locals and query_agent's are gone,
\* the script goes on after the call
Return ==
  /\ run.phase = "call" /\ op = "send_prompt" /\ pc = "done"
  /\ run' = [Logged([kind |-> "send", origin |-> run.origin, prompt |-> run.prompt,
                     chat |-> run.chat,
                     passed |-> run.passed, refused |-> Guarded(run.prompt, run.flag),
                     obtained |-> qa_session_id,
                     created |-> \E i \in 1..Len(calls) : calls[i] = "create_session",
                     ended |-> displayed.kind])
               EXCEPT !.phase = IF run.origin = "pending" THEN "input" ELSE "wait",
                      !.chat = IF run.origin = "pending" THEN @ ELSE PNone,
                      !.seen = @ \cup Reduction]
  /\ op' = "none" /\ pc' = "idle"
  /\ qa_session_id' = PNone /\ events' = <<>> /\ stream_error' = PNone
  /\ outcome' = NoOutcome /\ calls' = <<>> /\ displayed' = Nothing
  /\ UNCHANGED << environ, messages, session_id, is_sending, pending_prompt, tool >>

\* Streamlit stopped the run inside send_prompt: the exception leaves the
\* script, so the run is over and a chat input still to be read at line 345
\* is not read; st.session_state stays as send_prompt left it
StopRun ==
  /\ run.phase = "call" /\ op = "send_prompt" /\ pc = "stopped"
  /\ run' = [Logged([kind |-> "send", origin |-> run.origin, prompt |-> run.prompt,
                     chat |-> run.chat,
                     passed |-> run.passed, refused |-> Guarded(run.prompt, run.flag),
                     obtained |-> qa_session_id,
                     created |-> \E i \in 1..Len(calls) : calls[i] = "create_session",
                     ended |-> "stopped"])
               EXCEPT !.phase = "wait", !.chat = PNone, !.seen = @ \cup Reduction]
  /\ op' = "none" /\ pc' = "idle"
  /\ qa_session_id' = PNone /\ events' = <<>> /\ stream_error' = PNone
  /\ outcome' = NoOutcome /\ calls' = <<>> /\ displayed' = Nothing
  /\ UNCHANGED << environ, messages, session_id, is_sending, pending_prompt, tool >>

\* send_prompt(pending) at line 343 or send_prompt(prompt) at line 347
CallSendPrompt(getFails, stop) ==
  run.phase = "call" /\ SendPrompt(run.prompt, getFails, stop)
\* stream_query yields an event during a chat
ChatStreamYield(event) ==
  /\ \E st \in ChatStreams :
       Len(events) < Len(st) /\ SubSeq(st, 1, Len(events) + 1) = Append(events, event)
  /\ StreamYield(event)

InitChat ==
  /\ environ \in { e \in Environments : Truthy(e.GOOGLE_CLOUD_PROJECT) }
  /\ messages = <<>> /\ session_id = PNone
  /\ is_sending = FALSE /\ pending_prompt = PNone
  /\ op = "none" /\ pc = "idle"
  /\ qa_session_id = PNone /\ events = <<>> /\ stream_error = PNone
  /\ outcome = NoOutcome /\ calls = <<>> /\ displayed = Nothing
  /\ tool = NoTool
  /\ run = NoRun

NextChat ==
  \/ ClearChat
  \/ \E stopped \in BOOLEAN : Rerun(stopped)
  \/ \E chip \in Chips, chat \in ChatInputs, stopped \in BOOLEAN : ScriptRun(chip, chat, stopped)
  \/ TakePending
  \/ \E stopped \in BOOLEAN : TakeInput(stopped)
  \/ \E f \in BOOLEAN, stop \in {0, 195, 203, 216, 335} : CallSendPrompt(f, stop)
  \/ \E s \in ChatSessions, stopped \in BOOLEAN : CreateSession(s, stopped)
  \/ \E stopped \in BOOLEAN : CreateSessionFails("503 unavailable", stopped)
  \/ \E e \in ChatEvents : ChatStreamYield(e)
  \/ StreamRaise("503 unavailable")
  \/ StreamEnd
  \/ \E stopped \in BOOLEAN : CatchException(stopped)
  \/ \E stop \in {0, 229, 269, 317} : FinishSend(stop)
  \/ Return
  \/ StopRun

SpecChat == InitChat /\ [][NextChat]_vars

\* send_prompt called on any session state, a set is_sending flag included:
\* the function as such, whatever the script did before
InitSend ==
  /\ environ \in Environments
  /\ \E st \in SessionStates : messages = st.messages /\ session_id = st.session_id
  /\ is_sending \in BOOLEAN
  /\ pending_prompt \in Chips
  /\ op = "none" /\ pc = "idle"
  /\ qa_session_id = PNone /\ events = <<>> /\ stream_error = PNone
  /\ outcome = NoOutcome /\ calls = <<>> /\ displayed = Nothing
  /\ tool = NoTool
  /\ run = NoRun

NextSend ==
  \/ \E p \in Prompts, f \in BOOLEAN, stop \in {0, 195, 203, 216, 335} : SendPrompt(p, f, stop)
  \/ \E s \in ChatSessions, stopped \in BOOLEAN : CreateSession(s, stopped)
  \/ \E m \in ErrorMessages, stopped \in BOOLEAN : CreateSessionFails(m, stopped)
  \/ \E e \in ChatEvents : StreamYield(e)
  \/ \E m \in ErrorMessages : StreamRaise(m)
  \/ StreamEnd
  \/ \E stopped \in BOOLEAN : CatchException(stopped)
  \/ \E stop \in {0, 229, 269, 317} : FinishSend(stop)

SpecSend == InitSend /\ [][NextSend]_vars

\* ------------------------------------------------------------------------
\* Properties
\* ------------------------------------------------------------------------
\* query_agent has returned on its normal path / on its except path
ReturnedNormally == outcome.kind = "normal"
ReturnedError == outcome.kind = "transport_error"
Result == outcome.value.d

\* send_prompt has run to its end on a result of query_agent
SendDone == op = "send_prompt" /\ pc = "done" /\ outcome.kind \in {"normal", "transport_error"}
LastMessage == messages[Len(messages)]

\* The parts of an event with the given role, when it has a list of parts
PartsOf(e, role) ==
  IF /\ HasContent(e)
     /\ IsDict(e.d["content"])
     /\ "role" \in DOMAIN e.d["content"].d
     /\ e.d["content"].d["role"] = PStr(role)
     /\ "parts" \in DOMAIN e.d["content"].d
     /\ e.d["content"].d["parts"].ty = "list"
    THEN e.d["content"].d["parts"].l
    ELSE <<>>

\* Positions <<event, part>> of the text parts inside role="model" events
ModelTextAt(evs) ==
  UNION { { <<i, j>> : j \in { k \in 1..Len(PartsOf(evs[i], "model")) :
                                 /\ IsDict(PartsOf(evs[i], "model")[k])
                                 /\ "text" \in DOMAIN PartsOf(evs[i], "model")[k].d } }
          : i \in 1..Len(evs) }
Before(p, q) == p[1] < q[1] \/ (p[1] = q[1] /\ p[2] <= q[2])
LastModelText(evs) ==
  LET last == CHOOSE p \in ModelTextAt(evs) : \A q \in ModelTextAt(evs) : Before(q, p)
  IN PartsOf(evs[last[1]], "model")[last[2]].d["text"]

\* C1 as stated: whenever query_agent returns a response for a stream with a
\* model text part, the response is the text of the last such part.
C1_LastTextAlways ==
  (ReturnedNormally /\ ModelTextAt(events) # {})
    => Result.response = LastModelText(events)

\* C1, amended: the response is the text of the last model text part when
\* that text is not empty, and "No response text found" when it is empty;
\* earlier texts never show through.
C1_LastTextWins ==
  (ReturnedNormally /\ ModelTextAt(events) # {})
    => Result.response =
         (IF LastModelText(events) = PStr("") THEN PStr("No response text found")
          ELSE LastModelText(events))

\* Two model events with different texts were reduced and the second one won.
C1_Witness ==
  /\ pc = "returned" /\ ReturnedNormally
  /\ Len(events) = 2
  /\ ModelTextAt(events) = {<<1, 1>>, <<2, 1>>}
  /\ PartsOf(events[1], "model")[1].d["text"] = PStr("A")
  /\ Result.response = PStr("B")

\* C2: an empty stream gives the fallback text and no citations, in
\* query_agent's result and in the answer the chat UI shows and keeps.
C2_EmptyStream ==
  /\ (ReturnedNormally /\ events = <<>>)
       => /\ Result.response = PStr("No response text found")
          /\ Result.citations = PList(<<>>)
  /\ (SendDone /\ ReturnedNormally /\ events = <<>>)
       => /\ displayed = Shown("answer", PStr("No response text found"))
          /\ LastMessage.d["role"] = PStr("assistant")
          /\ LastMessage.d["content"] = PStr("No response text found")
          /\ LastMessage.d["citations"] = PList(<<>>)

\* A send ended on an empty stream and showed an answer.
C2_Witness ==
  /\ SendDone /\ ReturnedNormally /\ events = <<>>
  /\ displayed.kind = "answer"

\* The contexts list of a part's function_response, when its response is a
\* mapping that carries a list
ContextsOf(part) ==
  IF /\ IsDict(part)
     /\ "function_response" \in DOMAIN part.d
     /\ IsDict(part.d["function_response"])
     /\ "response" \in DOMAIN part.d["function_response"].d
     /\ IsDict(part.d["function_response"].d["response"])
     /\ "contexts" \in DOMAIN part.d["function_response"].d["response"].d
     /\ part.d["function_response"].d["response"].d["contexts"].ty = "list"
    THEN part.d["function_response"].d["response"].d["contexts"].l
    ELSE <<>>

\* Positions <<event, part, context>> of the mapping contexts that tool
\* results in role="user" events carry
ContextAt(evs) ==
  UNION { UNION { { <<i, j, k>> : k \in { n \in 1..Len(ContextsOf(PartsOf(evs[i], "user")[j])) :
                                           IsDict(ContextsOf(PartsOf(evs[i], "user")[j])[n]) } }
                  : j \in 1..Len(PartsOf(evs[i], "user")) }
          : i \in 1..Len(evs) }
Context(evs, p) == ContextsOf(PartsOf(evs[p[1]], "user")[p[2]])[p[3]]
Earlier(p, q) ==
  \/ p[1] < q[1]
  \/ p[1] = q[1] /\ p[2] < q[2]
  \/ p[1] = q[1] /\ p[2] = q[2] /\ p[3] <= q[3]
\* The place of position p in encounter order
Rank(evs, p) == Cardinality({ q \in ContextAt(evs) : Earlier(q, p) })

\* C3: the citation list has one entry per context of the tool results, in
\* encounter order, duplicates kept.
C3_CitationsInOrder ==
  ReturnedNormally =>
    /\ Len(Result.citations.l) = Cardinality(ContextAt(events))
    /\ \A p \in ContextAt(events) :
         /\ Result.citations.l[Rank(events, p)].d["text"]
              = PySlice(PyGet(Context(events, p), "text", PStr("")).v, CitationTextLimit).v
         /\ ("source_uri" \in DOMAIN Context(events, p).d
               => Result.citations.l[Rank(events, p)].d["source_uri"]
                    = Context(events, p).d["source_uri"])

\* Two tool-result events, each with the same single context, gave two
\* equal citations.
C3_Witness ==
  /\ pc = "returned" /\ ReturnedNormally
  /\ Len(events) = 2 /\ events[1] = events[2]
  /\ Cardinality(ContextAt(events)) = 2
  /\ Len(Result.citations.l) = 2
  /\ Result.citations.l[1] = Result.citations.l[2]

\* C4 as stated: a supplied session_id (any value but None) comes back in
\* the result, on the normal return and on the transport-error return.
C4_SuppliedSessionKept ==
  (pc = "returned" /\ session_id # PNone) => Result.session_id = session_id

\* C4, amended: a supplied non-empty session_id comes back in the result on
\* both returns, whatever the events; an empty one counts as not supplied.
C4_NonEmptySessionKept ==
  (pc = "returned" /\ Truthy(session_id)) => Result.session_id = session_id

\* The except branch returned with events collected, on a supplied session.
C4_Witness ==
  /\ pc = "returned" /\ ReturnedError
  /\ session_id = PStr("s1")
  /\ Len(events) = 2
  /\ Result.session_id = PStr("s1")

\* C5: the reduction never raises, in query_agent and in the chat UI's own
\* passes over the events of a normal result.
C5_ReductionNeverRaises ==
  /\ outcome.kind # "raised"
  /\ (SendDone /\ ReturnedNormally) => displayed.kind = "answer"

\* Events that are no mapping, or a mapping without "content"
Shapeless(e) == ~IsDict(e) \/ "content" \notin DOMAIN e.d
Shaped(e) == ~Shapeless(e)

\* C6: events that are no mapping or have no "content" key change nothing:
\* the stream reduces to what it reduces to without them.
C6_ShapelessIgnored ==
  (outcome.kind \in {"normal", "raised"}) =>
    LET without == ReduceFrom(Acc0, SelectSeq(events, Shaped), 1)
    IN /\ (outcome.kind = "raised") = without.raised
       /\ outcome.kind = "normal" =>
            /\ Result.response = PyOr(without.response_text, PStr("No response text found"))
            /\ Result.citations = PList(without.citations)

\* A stream with a shapeless event before a model text was reduced to that
\* text.
C6_Witness ==
  /\ pc = "returned" /\ ReturnedNormally
  /\ Len(events) = 2
  /\ Shapeless(events[1]) /\ Shaped(events[2])
  /\ Result.response = PStr("A")
  /\ Len(Result.citations.l) = 0

\* C7: when stream_query raises, query_agent returns a result with the
\* error string that embeds the message, no citations and the session id in
\* use; the exception does not leave query_agent.
C7_TransportErrorResult ==
  stream_error # PNone =>
    /\ outcome.kind = "transport_error"
    /\ Result.response = PStr("Error querying agent: " \o stream_error.s)
    /\ Result.citations = PList(<<>>)
    /\ Result.session_id = qa_session_id

\* stream_query raised with a message after it had yielded an event.
C7_Witness ==
  /\ pc = "returned"
  /\ stream_error = PStr("503 unavailable")
  /\ Len(events) >= 1
  /\ Result.response = PStr("Error querying agent: 503 unavailable")

\* C8 as stated: a failure during collection yields zero events.
C8_ZeroEventsOnFailure ==
  stream_error # PNone => Result.events = PList(<<>>)

\* C8, amended: on a failure query_agent reduces none of the collected
\* events (error string, no citations), and the result's events list is the
\* list collected before the failure, which is what the consumer gets.
C8_PartialEventsOnFailure ==
  stream_error # PNone =>
    /\ Result.events = PList(events)
    /\ Result.citations = PList(<<>>)
    /\ Result.response = PStr("Error querying agent: " \o stream_error.s)

\* stream_query raised after a model text and a tool result with contexts.
C8_Witness ==
  /\ pc = "returned" /\ stream_error # PNone
  /\ Len(events) = 2
  /\ ModelTextAt(events) # {} /\ ContextAt(events) # {}
  /\ Result.events.l = events

\* C9: after a transport error the chat UI shows and keeps the error string
\* of query_agent, whatever was collected before the failure. Stated for
\* streams of well-formed events, so that a violation does not rest on a
\* malformed one.
C9_ErrorShown ==
  (SendDone /\ stream_error # PNone /\ \A i \in 1..Len(events) : events[i] \in WellFormedEvents) =>
    /\ displayed = Shown("answer", Result.response)
    /\ LastMessage.d["role"] = PStr("assistant")
    /\ LastMessage.d["content"] = Result.response

\* Operations that need GOOGLE_CLOUD_PROJECT
NeedsProject ==
  op \in {"send_prompt", "create-agent", "list-agents", "deploy_with_mcp", "local"}
    \/ (op = "delete-agent" /\ displayed.kind # "exit")

\* C10: an operation whose required identifier is absent makes no call to
\* the remote service.
C10_FailFast ==
  /\ (NeedsProject /\ ~Truthy(environ.GOOGLE_CLOUD_PROJECT)) => calls = <<>>
  /\ (op = "send_prompt" /\ ~Truthy(environ.AGENT_RESOURCE_NAME)) => calls = <<>>

\* The contexts the chat UI cites: the mapping contexts that have a "text" key
UiContextAt(evs) == { p \in ContextAt(evs) : "text" \in DOMAIN Context(evs, p).d }
UiRank(evs, p) == Cardinality({ q \in UiContextAt(evs) : Earlier(q, p) })
\* The source a citation of this context is to carry
SourceOf(ctx) ==
  IF "source_uri" \in DOMAIN ctx.d THEN ctx.d["source_uri"] ELSE PStr("RAG Corpus")

\* C11: a citation of a context without source_uri carries "RAG Corpus", a
\* citation of a context with a source_uri carries that value unchanged, in
\* query_agent's result and in the citations the chat UI keeps.
C11_SourceUriDefault ==
  /\ ReturnedNormally =>
       \A p \in ContextAt(events) :
         Result.citations.l[Rank(events, p)].d["source_uri"] = SourceOf(Context(events, p))
  /\ (SendDone /\ displayed.kind = "answer") =>
       /\ Len(LastMessage.d["citations"].l) = Cardinality(UiContextAt(events))
       /\ \A p \in UiContextAt(events) :
            LastMessage.d["citations"].l[UiRank(events, p)].d["source_uri"]
              = SourceOf(Context(events, p))

\* A send ended on a tool result with two contexts, the first with a
\* source_uri and the second without: one citation kept it, the other got
\* the sentinel.
C11_Witness ==
  /\ SendDone /\ ReturnedNormally /\ displayed.kind = "answer"
  /\ Cardinality(ContextAt(events)) = 2
  /\ \E p, q \in ContextAt(events) :
       /\ "source_uri" \in DOMAIN Context(events, p).d
       /\ "source_uri" \notin DOMAIN Context(events, q).d
  /\ Result.citations.l[1].d["source_uri"] = PStr("gs://kb/one.pdf")
  /\ Result.citations.l[2].d["source_uri"] = PStr("RAG Corpus")
  /\ LastMessage.d["citations"].l[2].d["source_uri"] = PStr("RAG Corpus")

\* The text a context carries, "" when it has none
TextOf(ctx) == IF "text" \in DOMAIN ctx.d THEN ctx.d["text"] ELSE PStr("")
\* The first n characters of s, all of s when it has no more than n
FirstChars(s, n) == IF Len(s) <= n THEN s ELSE SubSeq(s, 1, n)

\* C12: every citation of every result has a text of at most 200 characters,
\* the first 200 characters of its context's text (the whole text when that
\* has 200 characters or fewer).
C12_TextTruncated ==
  /\ pc = "returned" =>
       \A i \in 1..Len(Result.citations.l) :
         /\ Result.citations.l[i].d["text"].ty = "str"
         /\ Len(Result.citations.l[i].d["text"].s) <= CitationTextLimit
  /\ ReturnedNormally =>
       \A p \in ContextAt(events) :
         Result.citations.l[Rank(events, p)].d["text"]
           = PStr(FirstChars(TextOf(Context(events, p)).s, CitationTextLimit))

\* A short context text was cited whole and a context text of more than 200
\* characters was cited by its first 200.
C12_Witness ==
  /\ pc = "returned" /\ ReturnedNormally
  /\ Len(Result.citations.l) = 3
  /\ Result.citations.l[1].d["text"] = PStr("doc one")
  /\ \E p \in ContextAt(events) :
       /\ Rank(events, p) = 3
       /\ Len(TextOf(Context(events, p)).s) > CitationTextLimit
       /\ Len(Result.citations.l[3].d["text"].s) = CitationTextLimit
       /\ Result.citations.l[3].d["text"].s = Text50 \o Text50 \o Text50 \o Text50

\* The step in which query_agent reduces the collected events
ReductionStep == pc = "stream" /\ pc' # "stream" /\ stream_error' = PNone

HasCall(c) == \E i \in 1..Len(calls) : calls[i] = c
CallAt(c) == CHOOSE i \in 1..Len(calls) : calls[i] = c
CallCount(c) == Cardinality({ i \in 1..Len(calls) : calls[i] = c })

\* C14: query_agent calls create_session exactly when the session_id it is
\* given is absent or empty, once, and before stream_query; with a session_id
\* supplied it creates none and calls stream_query with that id.
C14_SessionOpenedWhenAbsent ==
  /\ pc = "create_session" => (~Truthy(session_id) /\ ~HasCall("stream_query"))
  /\ pc \in {"stream", "returned", "raised"} =>
       /\ CallCount("stream_query") = 1
       /\ HasCall("create_session") <=> ~Truthy(session_id)
       /\ HasCall("create_session") =>
            (CallCount("create_session") = 1 /\ CallAt("create_session") < CallAt("stream_query"))
       /\ Truthy(session_id) => qa_session_id = session_id

\* Called with an empty session_id, query_agent created a session and then
\* opened the stream on the created id.
C14_Witness ==
  /\ pc = "returned" /\ session_id = PStr("")
  /\ calls = <<"vertexai.init", "agent_engines.get", "create_session", "stream_query">>
  /\ qa_session_id = PStr("s2")

\* C15: the stream is drained before anything is reduced: while stream_query
\* is iterated the events list only grows at its end, by one event of the
\* stream a step, and query_agent has no response or citation yet; the step
\* that reduces takes the list as collected, and a successful result holds
\* that list, in order, nothing dropped or repeated.
C15_DrainedBeforeReduction ==
  /\ [](pc = "stream" => outcome = NoOutcome)
  /\ [][(pc = "stream" /\ pc' = "stream") =>
          /\ Len(events') = Len(events) + 1
          /\ SubSeq(events', 1, Len(events)) = events
          /\ events'[Len(events')] \in Events
          /\ outcome' = NoOutcome]_vars
  /\ [][(pc = "stream" /\ pc' # "stream") => events' = events]_vars
  /\ [](ReturnedNormally =>
          /\ Len(Result.events.l) = Len(events)
          /\ \A i \in 1..Len(events) : Result.events.l[i] = events[i])

\* A stream of two different events, the second of which carries the text,
\* ended and was reduced: the result holds both events in the order yielded.
C15_Witness ==
  /\ pc = "returned" /\ ReturnedNormally
  /\ Len(events) = 2
  /\ events[1] = Event("user", PList(<<ToolResult(Contexts(<<CtxRag>>))>>))
  /\ events[2] = Event("model", PList(<<TextPart("B")>>))
  /\ Result.events.l[1] = events[1] /\ Result.events.l[2] = events[2]
  /\ Result.response = PStr("B")

\* C16: every result query_agent returns, on the normal and on the
\* transport-error path, has exactly the keys response, citations, events and
\* session_id; citations and events are lists; response is a non-empty
\* string: the error string on the error path, else the last model text or,
\* when there is none or it is empty, the fallback sentinel.
C16_ResultWellFormed ==
  pc = "returned" =>
    /\ outcome.value.ty = "dict"
    /\ DOMAIN Result = {"response", "citations", "events", "session_id"}
    /\ Result.citations.ty = "list"
    /\ Result.events.ty = "list"
    /\ Result.response.ty = "str"
    /\ Result.response.s # ""
    /\ ReturnedError => Result.response.s = "Error querying agent: " \o stream_error.s
    /\ ReturnedNormally =>
         \/ Result.response = PStr("No response text found")
         \/ ModelTextAt(events) # {} /\ Result.response = LastModelText(events)

\* A part without the given keys; a part that is no mapping as it is
StripPart(part, keys) ==
  IF IsDict(part) THEN PDict(SelectSeq(part.keys, LAMBDA k : k \notin keys),
               [k \in (DOMAIN part.d) \ keys |-> part.d[k]]) ELSE part

\* The keys of a part that the role of its event gives no meaning to:
\* function_response under "model", text under "user", both under any other
OffRoleKeys(role) ==
  IF role = PStr("model") THEN {"function_response"}
  ELSE IF role = PStr("user") THEN {"text"}
  ELSE {"text", "function_response"}

\* The event without the off-role keys of its parts
StripEvent(e) ==
  IF /\ HasContent(e)
     /\ IsDict(e.d["content"])
     /\ "parts" \in DOMAIN e.d["content"].d
     /\ e.d["content"].d["parts"].ty = "list"
    THEN LET content == e.d["content"]
             keys == OffRoleKeys(PyGet(content, "role", PNone).v)
             l == content.d["parts"].l
         IN PDict(e.keys, [e.d EXCEPT !["content"] =
              PDict(content.keys, [content.d EXCEPT !["parts"] =
                PList([i \in 1..Len(l) |-> StripPart(l[i], keys)])])])
    ELSE e
Stripped(evs) == [i \in 1..Len(evs) |-> StripEvent(evs[i])]

\* Events that carry an off-role text or function_response
HasOffRole(e) == StripEvent(e) # e

\* C17: texts count only under role "model" and function_response parts
\* only under role "user": the stream reduces to what it reduces to when the
\* text parts of events of other roles than "model" and the function_response
\* parts of events of other roles than "user" are taken out.
C17_DisjointRoles ==
  (outcome.kind \in {"normal", "raised"}) =>
    LET without == ReduceFrom(Acc0, Stripped(events), 1)
    IN /\ (outcome.kind = "raised") = without.raised
       /\ outcome.kind = "normal" =>
            /\ Result.response = PyOr(without.response_text, PStr("No response text found"))
            /\ Result.citations = PList(without.citations)

\* A model event with a tool result between its texts, then a user event
\* with a text and tool results without contexts: the response is the model
\* event's last text and nothing is cited.
C17_Witness ==
  /\ pc = "returned" /\ ReturnedNormally
  /\ Len(events) = 2
  /\ HasOffRole(events[1]) /\ HasOffRole(events[2])
  /\ events[1] = Event("model", PList(<<TextPart("A"), ToolResult(Contexts(<<CtxFull>>)),
                                        TextPart("B")>>))
  /\ PartsOf(events[2], "user") # <<>>
  /\ PartsOf(events[2], "user")[1] = TextPart("A")
  /\ Result.response = PStr("B")
  /\ Result.citations = PList(<<>>)

\* The id C18 describes for a create_session result: its id when present and
\* not empty, else the last "/"-separated segment of its name ("" stands for
\* a result that has neither, or is no mapping)
DescribedId(session) ==
  IF ~IsDict(session) THEN PStr("")
  ELSE IF "id" \in DOMAIN session.d /\ Truthy(session.d["id"]) THEN session.d["id"]
  ELSE IF "name" \in DOMAIN session.d /\ session.d["name"].ty = "str"
    THEN PStr(LastSegment(session.d["name"].s))
  ELSE PStr("")

\* query_agent has created a session and gone on to stream_query
CreatedSession == pc \in {"stream", "returned", "raised"} /\ HasCall("create_session")

\* C18: the id query_agent takes from a created session is the result's id
\* when present and not empty, else the last segment of its name; it is the
\* id stream_query is opened on and the id returned; and it is not empty.
C18_CreatedSessionId ==
  /\ \A s \in Sessions : SessionIdOf(s).ok => SessionIdOf(s).v = DescribedId(s)
  /\ CreatedSession =>
       /\ \E s \in Sessions : qa_session_id = DescribedId(s)
       /\ pc = "returned" => Result.session_id = qa_session_id
       /\ qa_session_id.ty = "str" /\ qa_session_id.s # ""

\* The deployment CLI has run with a command
CliRan == pc = "done" /\ op \in { argv[1] : argv \in CommandLines \ {<<>>} }
Unknown == Shown("exit", PStr("Unknown command"))

\* C19 as stated: none of create-agent, create-session, send-message,
\* delete-agent and list-agents is rejected as an unknown command.
C19_FiveCommands ==
  (CliRan /\ op \in {"create-agent", "create-session", "send-message", "delete-agent",
                     "list-agents"})
    => displayed # Unknown

\* C19, amended: the CLI of remote.py recognises create-agent, delete-agent
\* and list-agents and dispatches each to its operation (delete-agent only
\* with a resource name); every other command, create-session and
\* send-message among them, is rejected as unknown before any remote call.
C19_ThreeCommands ==
  CliRan =>
    /\ (displayed = Unknown) <=> (op \notin {"create-agent", "delete-agent", "list-agents"})
    /\ displayed = Unknown => calls = <<>>
    /\ op = "create-agent" =>
         \E b \in StagingBuckets :
           /\ displayed = create_remote_agent(environ, b).shown
           /\ calls = create_remote_agent(environ, b).calls
    /\ op = "list-agents" =>
         /\ displayed = list_remote_agents(environ).shown
         /\ calls = list_remote_agents(environ).calls
    /\ op = "delete-agent" =>
         \/ displayed = Shown("exit", PStr("Error: delete-agent requires resource_name"))
              /\ calls = <<>>
         \/ displayed = Shown("ok", PStr("Agent deleted"))
              /\ calls = <<"vertexai.init", "agent_engines.delete">>

\* The CLI was started with send-message and rejected it.
C19_Witness ==
  /\ CliRan /\ op = "send-message"
  /\ displayed = Unknown
  /\ calls = <<>>

\* A tool call of get_file_contents (either copy) has returned on a reply
ToolReplied ==
  /\ pc = "done" /\ op \in {"get_file_contents", "inline_get_file_contents"}
  /\ ~tool.response.raised
StartsWith(text, prefix) ==
  Len(text) >= Len(prefix) /\ SubSeq(text, 1, Len(prefix)) = prefix
RECURSIVE JoinLines(_)
JoinLines(lines) ==
  IF Len(lines) = 0 THEN ""
  ELSE IF Len(lines) = 1 THEN lines[1]
  ELSE lines[1] \o "\n" \o JoinLines(Tail(lines))
\* A directory reply whose items all have a name and a type
Listing(data) ==
  /\ data.ty = "list"
  /\ \A i \in 1..Len(data.l) : IsDict(data.l[i]) /\ {"name", "type"} \subseteq DOMAIN data.l[i].d
\* The size the code reads: data.get("size", 0)
SizeRead(data) == IF "size" \in DOMAIN data.d THEN data.d["size"] ELSE PInt(0)

\* C20: get_file_contents classifies the reply in a fixed priority, in both
\* copies: status 404 gives the "File not found" string whatever the body;
\* any other status but 200 gives an error string that names the status; a
\* 200 list gives the directory header and one "- name (type)" line per
\* item, in order; a 200 mapping with content whose size reads 0 (an absent
\* size reads 0) gives "File exists but is empty"; a 200 mapping with content
\* and another size gives the base64-decoded text, or the decode-error string
\* when it does not decode; any other 200 mapping gives its JSON dump, the
\* members in the order of the reply.
C20_ReplyClassified ==
  ToolReplied =>
    LET r == tool.response
        data == r.json.v
        out == tool.result.s
    IN /\ tool.result.ty = "str"
       /\ r.status_code = 404 => StartsWith(out, "File not found: " \o tool.path)
       /\ r.status_code \notin {200, 404} =>
            /\ StartsWith(out, "Error")
            /\ \E i \in 1..Len(out) :
                 StartsWith(SubSeq(out, i, Len(out)), "HTTP " \o ToString(r.status_code))
       /\ (r.status_code = 200 /\ r.json.ok) =>
            /\ Listing(data) =>
                 out = "Directory contents of " \o (IF tool.path = "" THEN "root" ELSE tool.path)
                         \o ":\n"
                         \o JoinLines([i \in 1..Len(data.l) |->
                              "- " \o data.l[i].d["name"].s \o " (" \o data.l[i].d["type"].s \o ")"])
            /\ (IsDict(data) /\ "content" \in DOMAIN data.d /\ SizeRead(data) = PInt(0)) =>
                 out = "File exists but is empty: " \o tool.path
            /\ (IsDict(data) /\ "content" \in DOMAIN data.d /\ SizeRead(data) # PInt(0)) =>
                 IF DecodeContent(data.d["content"]).ok
                   THEN out = DecodeContent(data.d["content"]).v
                   ELSE StartsWith(out, "Error decoding file")
            /\ (IsDict(data) /\ "content" \notin DOMAIN data.d) => out = JsonDump(data)
            /\ r.text = "{\"type\": \"submodule\", \"name\": \"lib\", \"size\": 0}" =>
                 out = "{\n  \"type\": \"submodule\",\n  \"name\": \"lib\",\n  \"size\": 0\n}"

\* The tool was called on README.md and the API replied 200 with a content
\* of size 3: the result is the decoded text.
C20_Witness ==
  /\ ToolReplied /\ op = "get_file_contents"
  /\ tool.path = "README.md"
  /\ tool.response.status_code = 200
  /\ tool.response.json.v = PDict(<<"content", "size">>, [content |-> PStr("aGkK\n"), size |-> PInt(3)])
  /\ tool.result = PStr("hi\n")

\* ---------------------------------------------------------------------------
\* C21
\* ---------------------------------------------------------------------------

\* One of the tools of the agent has been called and the call is over
ToolOps ==
  { "rag_retrieval", "list_repositories", "get_file_contents", "inline_get_file_contents",
    "get_repository_info", "list_medium_articles" }
ToolCalled == pc = "done" /\ op \in ToolOps
\* The remote call of the tool did not give a usable answer
RemoteFailure ==
  CASE op = "rag_retrieval" ->
         \/ ~Truthy(tool.rag_corpus)
         \/ ~tool.response.ok
         \/ \E i \in 1..Len(tool.response.v.l) : "text" \notin DOMAIN tool.response.v.l[i].d
    [] op \in {"list_repositories", "get_repository_info"} ->
         tool.response.raised \/ tool.response.status_code # 200
    [] op \in {"get_file_contents", "inline_get_file_contents"} ->
         \/ tool.response.raised
         \/ tool.response.status_code # 200
         \/ ~tool.response.json.ok
    [] op = "list_medium_articles" ->
         \/ tool.response.raised
         \/ tool.response.status_code \notin 200..299
         \/ tool.feed.bozo
\* The three shapes an error is returned in
ErrorValue(v) ==
  \/ /\ v.ty = "str"
     /\ \/ StartsWith(v.s, "Error")
        \/ StartsWith(v.s, "Timeout ")
        \/ StartsWith(v.s, "File not found: ")
        \/ StartsWith(v.s, "{\"error\": ")
  \/ /\ v.ty = "dict"
     /\ "status" \in DOMAIN v.d /\ v.d["status"] = PStr("error")
     /\ "error_message" \in DOMAIN v.d

\* C21: no tool wrapper raises to the agent runtime. Whatever the remote call
\* does (a status other than success, a timeout, a transport exception, a body
\* that cannot be parsed, no RAG_CORPUS), the call of rag_retrieval,
\* list_repositories, get_file_contents, get_repository_info or
\* list_medium_articles ends with a value, a str or a mapping, never with an
\* exception, and when the remote call failed the value is an error string,
\* an error JSON string or a mapping with status "error".
C21_ToolsNeverRaise ==
  ToolCalled =>
    /\ tool.result.ty \in {"str", "dict"}
    /\ op = "rag_retrieval" => tool.result.ty = "dict"
    /\ op # "rag_retrieval" => tool.result.ty = "str"
    /\ RemoteFailure => ErrorValue(tool.result)

\* list_medium_articles was called and Medium answered 503: raise_for_status
\* raised inside the tool, and the tool returned the error string.
C21_Witness ==
  /\ ToolCalled /\ op = "list_medium_articles"
  /\ ~tool.response.raised /\ tool.response.status_code = 503
  /\ tool.result = PStr("Error: Medium RSS feed returned status 503")

\* ---------------------------------------------------------------------------
\* C29
\* ---------------------------------------------------------------------------

\* rag_retrieval has been called and the call is over
RagCalled == pc = "done" /\ op = "rag_retrieval"
\* The event that carries the tool's result back, as the stream reports it
RagEvent == Event("user", PList(<<ToolResult(tool.result)>>))
\* The citations query_agent and send_prompt make of that event
RagCitations == ReduceResult(<<RagEvent>>, PStr("s1")).value.d.citations.l
UiRagCitations ==
  UiTurn(ReduceResult(<<RagEvent>>, PStr("s1")).value).message.d["citations"].l
RagSucceeded ==
  /\ "status" \in DOMAIN tool.result.d
  /\ tool.result.d["status"] = PStr("success")

\* C29: every citation that comes from the repository's own rag_retrieval has
\* source_uri "RAG Corpus". The contexts the tool returns carry text and
\* distance and nothing else, whatever the retrieved context held, so the
\* reduction of the event with the tool's result, in query_agent and in
\* send_prompt, gives each citation the default source; a result with contexts
\* gives at least one citation.
C29_RagCitationsDefaultSource ==
  RagCalled =>
    /\ RagSucceeded =>
         /\ \A i \in 1..Len(tool.result.d["contexts"].l) :
              DOMAIN tool.result.d["contexts"].l[i].d = {"text", "distance"}
         /\ Len(tool.result.d["contexts"].l) = Len(tool.response.v.l)
         /\ tool.result.d["contexts"].l # <<>> =>
              RagCitations # <<>> /\ UiRagCitations # <<>>
    /\ ~RagSucceeded => RagCitations = <<>> /\ UiRagCitations = <<>>
    /\ \A i \in 1..Len(RagCitations) :
         RagCitations[i].d["source_uri"] = PStr("RAG Corpus")
    /\ \A i \in 1..Len(UiRagCitations) :
         UiRagCitations[i].d["source_uri"] = PStr("RAG Corpus")

\* The corpus returned two contexts that name their files; the tool's result
\* gives two citations, both with the default source.
C29_Witness ==
  /\ RagCalled /\ RagSucceeded
  /\ Len(tool.response.v.l) = 2
  /\ tool.response.v.l[1].d["source_uri"] = PStr("gs://kb/two.pdf")
  /\ Len(RagCitations) = 2
  /\ RagCitations[2].d["source_uri"] = PStr("RAG Corpus")
  /\ UiRagCitations[1].d["source_uri"] = PStr("RAG Corpus")

\* ---------------------------------------------------------------------------
\* C28
\* ---------------------------------------------------------------------------

\* The text and source_uri of each entry of a citation list, in order
TextAndSource(citations) ==
  [i \in 1..Len(citations) |->
     [text |-> citations[i].d["text"], source_uri |-> citations[i].d["source_uri"]]]

\* C28: the two copies of the reduction agree. When query_agent returned
\* normally and send_prompt has stored its assistant message, the content of
\* the message equals the response of the result, and the citations of the
\* message equal the citations of the result in text and source_uri, entry by
\* entry and in order.
C28_ReducersAgree ==
  (SendDone /\ ReturnedNormally /\ displayed.kind = "answer") =>
    /\ LastMessage.d["content"] = Result.response
    /\ TextAndSource(LastMessage.d["citations"].l) = TextAndSource(Result.citations.l)

\* ---------------------------------------------------------------------------
\* C22 (the chat UI over several script runs, SpecChat)
\* ---------------------------------------------------------------------------

\* The calls of send_prompt in the log, and whether two of them belong to one
\* conversation (no Clear Chat History between them)
SendsOf(log) == { i \in 1..Len(log) : log[i].kind = "send" }
SameConversation(log, i, j) == \A k \in i..j : log[k].kind # "clear"
\* The send got a session id for its query: the one passed or a created one
Obtained(entry) == entry.obtained # PNone

\* C22: across the sends of one conversation, once a send has obtained a
\* session id every later send passes that same id to query_agent and does not
\* call create_session again.
C22_SessionReused ==
  \A i, j \in SendsOf(run.log) :
    (i < j /\ SameConversation(run.log, i, j) /\ Obtained(run.log[i])) =>
      /\ run.log[j].passed = run.log[i].obtained
      /\ ~run.log[j].created

\* ---------------------------------------------------------------------------
\* C23
\* ---------------------------------------------------------------------------

\* The step is a click on Clear Chat History
ClearStep == run'.log = Append(run.log, [kind |-> "clear"])
\* The send at place j of the log is the first one after a Clear Chat History
FirstAfterClear(log, j) ==
  /\ log[j].kind = "send"
  /\ \E c \in 1..(j - 1) :
       /\ log[c].kind = "clear"
       /\ \A k \in (c + 1)..(j - 1) : log[k].kind # "send"
\* C23: Clear Chat History sets the message history to empty and the stored
\* session id to None and leaves is_sending and pending_prompt as they are;
\* the first send after it passes no session id to query_agent, whatever id
\* was stored before the click, and when it obtains a session id it is the
\* one a call of create_session made for it (the service may name the new
\* session as it likes, the code compares no ids).
C23_ClearResets ==
  /\ [][ClearStep =>
          /\ messages' = <<>>
          /\ session_id' = PNone
          /\ UNCHANGED << is_sending, pending_prompt >>]_vars
  /\ [](\A j \in 1..Len(run.log) :
          FirstAfterClear(run.log, j) =>
            /\ run.log[j].passed = PNone
            /\ Obtained(run.log[j]) => run.log[j].created)

\* A send on session s2, then Clear Chat History, then a send that was given
\* no session id and created s3.
C23_Witness ==
  /\ Len(run.log) = 3
  /\ run.log[1].kind = "send" /\ run.log[1].obtained = PStr("s2")
  /\ run.log[1].ended = "answer"
  /\ run.log[2].kind = "clear"
  /\ run.log[3].kind = "send" /\ run.log[3].passed = PNone
  /\ run.log[3].created /\ run.log[3].obtained = PStr("s3")
  /\ session_id = PStr("s3")

\* ---------------------------------------------------------------------------
\* C24
\* ---------------------------------------------------------------------------

\* A call of send_prompt is over: it returned, or Streamlit stopped the run
\* inside it
SendExits == op = "send_prompt" /\ pc \in {"done", "stopped"} /\ run.phase = "call"

\* C24: the is_sending flag is released on every exit of a send_prompt call
\* that set it: whenever a call is over the flag is False, and no send of the
\* chat is refused by the guard because of a flag an earlier call left set.
C24_FlagReleased ==
  /\ (SendExits /\ ~Guarded(run.prompt, run.flag)) => ~is_sending
  /\ \A j \in SendsOf(run.log) : ~run.log[j].refused

\* ---------------------------------------------------------------------------
\* C25 (send_prompt on any session state, SpecSend)
\* ---------------------------------------------------------------------------

\* The step is a call of send_prompt that its guard turns away: the prompt is
\* empty, or is_sending is True
RefusedCall ==
  \/ \E f \in BOOLEAN, stop \in {0, 195, 203, 216, 335} : SendPrompt(PStr(""), f, stop)
  \/ is_sending /\ \E p \in Prompts, f \in BOOLEAN, stop \in {0, 195, 203, 216, 335} :
                      SendPrompt(p, f, stop)

\* C25: send_prompt called with an empty prompt, or while is_sending is True,
\* changes nothing: the message history, the stored session id, is_sending
\* and pending_prompt stay as they are, and query_agent is not called (no call
\* to the remote service, no result, the function is over).
C25_GuardRefuses ==
  [][RefusedCall =>
       /\ UNCHANGED << messages, session_id, is_sending, pending_prompt >>
       /\ UNCHANGED << calls, outcome, qa_session_id, events, displayed >>
       /\ pc' = "done"]_vars

\* send_prompt was called while is_sending was True on a session with a
\* finished turn: it is over, the flag is still set, the history is the same
\* and nothing was called.
C25_Witness ==
  /\ op = "send_prompt" /\ pc = "done"
  /\ is_sending
  /\ messages = PriorTurn /\ session_id = PStr("s1")
  /\ calls = <<>> /\ outcome = NoOutcome

\* ---------------------------------------------------------------------------
\* C26 (SpecChat)
\* ---------------------------------------------------------------------------

\* query_agent returned a result and the rest of the turn raised nothing
TurnCompleted ==
  /\ outcome.kind \in {"normal", "transport_error"}
  /\ ~UiTurn(outcome.value).raised
AssistantMessage(m) ==
  /\ IsDict(m) /\ DOMAIN m.d = {"role", "content", "citations"}
  /\ m.d["role"] = PStr("assistant")

\* C26: the history changes only by appends and by Clear Chat History. While
\* a send_prompt that passed the guard runs, the history is the one it found
\* plus the user message; when it returns, the history is that plus one
\* assistant message if query_agent returned a result and the turn finished
\* without an exception, and plus nothing otherwise (AGENT_RESOURCE_NAME
\* missing, an exception caught, or the exception by which Streamlit stops
\* the run, which leaves send_prompt at pc = "stopped").
C26_HistoryAppends ==
  /\ [][\/ messages' = messages
        \/ ClearStep /\ messages' = <<>>
        \/ \E m \in {messages'[Len(messages')]} : messages' = Append(messages, m)]_vars
  /\ []((run.phase = "call" /\ op = "send_prompt" /\ ~Guarded(run.prompt, run.flag)) =>
          LET sent == Append(run.before, UserMessage(run.prompt))
          IN /\ pc # "done" => messages = sent
             /\ (pc = "done" /\ TurnCompleted) =>
                  /\ Len(messages) = Len(sent) + 1
                  /\ SubSeq(messages, 1, Len(sent)) = sent
                  /\ AssistantMessage(LastMessage)
                  /\ LastMessage = UiTurn(outcome.value).message
             /\ (pc = "done" /\ ~TurnCompleted) => messages = sent)

\* stream_query yielded a malformed event and then failed: query_agent
\* returned its error result, the UI's own pass over the events raised, and
\* the history ends with the user message.
C26_Witness ==
  /\ run.phase = "call" /\ op = "send_prompt" /\ pc = "done"
  /\ outcome.kind = "transport_error"
  /\ displayed.kind = "exception"
  /\ messages = <<UserMessage(run.prompt)>>

\* ---------------------------------------------------------------------------
\* C27 (SpecChat)
\* ---------------------------------------------------------------------------

\* The click that stored the prompt of the pending send at place j: the last
\* chip entry before j
ClickOf(log, j) ==
  CHOOSE i \in 0..(j - 1) :
    /\ i > 0 => log[i].kind = "chip"
    /\ \A k \in (i + 1)..(j - 1) : log[k].kind # "chip"
\* The step passes the chat input of the run to send_prompt
ChatInputSent == run.phase = "input" /\ run'.phase = "call"

\* C27: a quick prompt stored in pending_prompt is sent at most once.
\* pending_prompt is None from the moment send_prompt is about to be called
\* with it to the end of the run, however the send ends; every send of a
\* pending prompt has a click before it that stored that prompt, and no
\* other send of a pending prompt lies between the two, so no click is sent
\* twice; and the chat input of a run is passed to send_prompt only when no
\* pending prompt is left, the pending prompt of the run having been taken
\* before (when the run goes on after that send, the chat input is the very
\* next send).
C27_PendingSentOnce ==
  /\ [](run.phase \in {"call", "input"} => pending_prompt = PNone)
  /\ [](\A j \in SendsOf(run.log) :
          run.log[j].origin = "pending" =>
            LET i == ClickOf(run.log, j)
            IN /\ i > 0 /\ run.log[i].prompt = run.log[j].prompt
               /\ \A k \in (i + 1)..(j - 1) :
                    ~(run.log[k].kind = "send" /\ run.log[k].origin = "pending"))
  /\ [][ChatInputSent =>
          /\ pending_prompt = PNone
          /\ run'.origin = "chat" /\ run'.prompt = run.chat
          /\ (Len(run.log) > 0 /\ run.log[Len(run.log)].kind = "send"
                /\ run.log[Len(run.log)].origin = "pending"
                /\ run.log[Len(run.log)].chat = run.chat)
              \/ (Len(run.log) > 0 => run.log[Len(run.log)].kind # "chip")]_vars

\* A quick prompt was clicked in a run without chat input and its send
\* failed; a later run sent its chat input and nothing else.
C27_Witness ==
  /\ Len(run.log) = 3 /\ run.phase = "wait"
  /\ run.log[1].kind = "chip"
  /\ run.log[2].kind = "send" /\ run.log[2].origin = "pending"
  /\ run.log[2].chat = PNone /\ run.log[2].ended = "exception"
  /\ run.log[3].kind = "send" /\ run.log[3].origin = "chat"
  /\ pending_prompt = PNone

====
